---- MODULE Spec2Model ----
(***************************************************************************)
(* Model of the adaptiv-x health / capability pipeline:                    *)
(*   - AnomalyDetector (adaptiv_monitor/ml_model.py)                       *)
(*   - HealthFusion    (adaptiv_monitor/health_fusion.py)                  *)
(*   - PolicyEngine    (skill_broker/policy_engine.py)                     *)
(*                                                                         *)
(* Python floats are modelled as exact rationals [n |-> num, d |-> den]    *)
(* in lowest terms with d > 0.  +, -, *, / and comparisons are exact; the  *)
(* only rounding operation is math.sqrt, truncated to 1/1000.  IEEE-754    *)
(* rounding error of the binary64 operations is not modelled.              *)
(***************************************************************************)
EXTENDS Integers, Sequences, FiniteSets, TLC

\* ------------------------------------------------------------------------
\* Exact rational arithmetic (the model of Python float values)
\* ------------------------------------------------------------------------
IAbs(i) == IF i < 0 THEN -i ELSE i

RECURSIVE GCD(_, _)
GCD(a, b) == IF b = 0 THEN a ELSE GCD(b, a % b)

Rat(num, den) ==
    LET s == IF den < 0 THEN -1 ELSE 1
        g == GCD(IAbs(num), IAbs(den))
    IN  [n |-> (s * num) \div g, d |-> (s * den) \div g]

RInt(i) == [n |-> i, d |-> 1]
Zero == RInt(0)
One == RInt(1)

RAdd(x, y) == Rat(x.n * y.d + y.n * x.d, x.d * y.d)
RSub(x, y) == Rat(x.n * y.d - y.n * x.d, x.d * y.d)
RMul(x, y) == Rat(x.n * y.n, x.d * y.d)
RDiv(x, y) == Rat(x.n * y.d, x.d * y.n)
RLt(x, y) == x.n * y.d < y.n * x.d
RLe(x, y) == x.n * y.d <= y.n * x.d
RAbs(x) == [n |-> IAbs(x.n), d |-> x.d]

\* Python min(x, y) returns x unless y < x; max(x, y) returns x unless y > x.
PyMin(x, y) == IF RLt(y, x) THEN y ELSE x
PyMax(x, y) == IF RLt(x, y) THEN y ELSE x

\* x > 1e-9, computed without leaving 32 bits.
ExceedsNano(x) == x.n > 0 /\ x.d \div x.n < 1000000000

\* Python int(float): truncation toward zero.
PyInt(x) == IF x.n >= 0 THEN x.n \div x.d ELSE -((-x.n) \div x.d)

\* Python round(x, 3): nearest multiple of 1/1000, ties to even.
PyRound3(x) ==
    LET num == x.n * 1000
        fl == num \div x.d
        twice == 2 * (num - fl * x.d)
        k == IF twice < x.d THEN fl
             ELSE IF twice > x.d THEN fl + 1
             ELSE IF fl % 2 = 0 THEN fl ELSE fl + 1
    IN  Rat(k, 1000)

\* Largest integer in lo..hi whose square does not exceed i (bisection).
RECURSIVE ISqrtIn(_, _, _)
ISqrtIn(i, lo, hi) ==
    IF lo >= hi THEN lo
    ELSE LET mid == (lo + hi + 1) \div 2
         IN  IF mid * mid <= i THEN ISqrtIn(i, mid, hi)
             ELSE ISqrtIn(i, lo, mid - 1)

\* floor(x * 10^6) for x >= 0, computed without leaving 32 bits.
FloorMicro(x) ==
    LET whole == x.n \div x.d
        milli == (x.n % x.d) * 1000
    IN  whole * 1000000 + (milli \div x.d) * 1000
          + ((milli % x.d) * 1000) \div x.d

\* math.sqrt, truncated to a multiple of 1/1000.
PySqrt(x) == Rat(ISqrtIn(FloorMicro(x), 0, 46340), 1000)

\* ------------------------------------------------------------------------
\* State
\* ------------------------------------------------------------------------
VARIABLES
    ml_weight,        \* HealthFusion.ml_weight
    physics_weight,   \* HealthFusion.physics_weight
    fusionCall,       \* last compute() call: inputs and HealthResult
    fusionPrev,       \* the compute() call before it
    fusionInit,       \* the HealthFusion(...) call: its arguments and
                      \* whether it raised
    historyCall       \* last compute_with_history() call: arguments and
                      \* HealthResult

fusionVars ==
    <<ml_weight, physics_weight, fusionCall, fusionPrev, fusionInit,
      historyCall>>

VARIABLES
    config,           \* AnomalyDetector._config
    residuals,        \* AnomalyDetector._residuals (deque, oldest first)
    sum,              \* AnomalyDetector._sum
    sum_sq,           \* AnomalyDetector._sum_sq
    detCall,          \* last detect()/reset() call and its outcome
    pushed,           \* history: residuals pushed since construction/reset
    fresh,            \* a freshly constructed detector with the same config,
                      \* built at the last reset() and fed the same readings
    afterReset,       \* "none": no reset yet; "empty"/"used": the window
                      \* was empty / non-empty when reset() was last called
    detInit           \* the AnomalyDetector(...) call: its model file and
                      \* whether it raised

detectorVars ==
    <<config, residuals, sum, sum_sq, detCall, pushed, fresh, afterReset,
      detInit>>

VARIABLES
    rules,            \* PolicyEngine._rules (scanned first to last)
    evalCall,         \* last evaluate() call: the index, the rule table
                      \* it scanned, and its outcome
    loadCall          \* last PolicyEngine(...) or load_from_file() call:
                      \* the rule resource and whether the call raised

policyVars == <<rules, evalCall, loadCall>>

VARIABLES
    audit_log,        \* skill_broker.main.audit_log (oldest first)
    appended,         \* history: every entry appended, in append order
    auditQuery        \* last GET /audit call: filter, limit and result

brokerVars == <<audit_log, appended, auditQuery>>

VARIABLES
    tasks,            \* the handlers in flight on the broker's event loop
    registry,         \* capability elements held by the AAS environment
    fault             \* what is wrong with the AAS environment, if anything

taskVars == <<tasks, registry, fault>>

VARIABLES
    requests,         \* the /assess requests in flight on the monitor's
                      \* event loop
    twin              \* a second run of the monitor, same settings: its
                      \* detector, and the requests both runs were sent

monitorVars == <<requests, twin>>

vars ==
    <<fusionVars, detectorVars, policyVars, brokerVars, taskVars,
      monitorVars>>

NoCall == [kind |-> "none"]

\* Path.exists(): what the call can do.  It swallows only the "not found"
\* family of OSError; whether other stat() errors propagate or give False
\* depends on the Python version, so both outcomes are possible.
path_exists(file) ==
    IF file.kind = "missing" THEN { "False" }
    ELSE IF file.kind = "unstatable" THEN { "OSError", "False" }
    ELSE { "True" }

\* ------------------------------------------------------------------------
\* HealthFusion (health_fusion.py)
\* ------------------------------------------------------------------------
\* Weights offered to the constructor and inputs offered to compute().
FusionWeights ==
    { <<Rat(3, 5), Rat(2, 5)>>, <<Rat(9, 10), Rat(1, 10)>>,
      <<Rat(1, 1), Rat(1, 1)>>, <<Rat(2, 5), Rat(1, 10)>> }
\* Weights the constructor rejects.
InvalidFusionWeights ==
    { <<Rat(6, 5), Rat(2, 5)>>, <<Rat(3, 5), Rat(-1, 10)>>,
      <<Rat(-1, 2), Rat(3, 2)>>, <<Rat(1, 2), Rat(1001, 1000)>> }
FusionInputs ==
    { Rat(-1, 2), Rat(-3, 10), Rat(0, 1), Rat(1, 8), Rat(1, 2), Rat(4, 5),
      Rat(1, 1), Rat(3, 2), Rat(2, 1) }

\* Mutant of ValidWeights: only the ML weight is validated.
ValidWeights_onlyMl(w_ml, w_physics) ==
    RLe(Zero, w_ml) /\ RLe(w_ml, One)

\* HealthFusion.__init__ accepts exactly the weights in [0, 1].
ValidWeights(w_ml, w_physics) ==
    /\ RLe(Zero, w_ml) /\ RLe(w_ml, One)
    /\ RLe(Zero, w_physics) /\ RLe(w_physics, One)

\* Mutants of compute: no clamping of the inputs, and no cap of the
\* weighted sum at 1.
compute_noClamp(w_ml, w_physics, anomaly_score, physics_residual) ==
    LET a == anomaly_score
        r == physics_residual
        confidence ==
            RSub(One, PyMin(One, RAdd(RMul(w_ml, a), RMul(w_physics, r))))
        health_index == PyInt(RMul(RInt(100), confidence))
    IN  [health_index |-> health_index,
         health_confidence |-> PyRound3(confidence),
         anomaly_score |-> PyRound3(a),
         physics_residual |-> PyRound3(r)]

compute_noCap(w_ml, w_physics, anomaly_score, physics_residual) ==
    LET a == PyMin(One, PyMax(Zero, anomaly_score))
        r == PyMin(One, PyMax(Zero, physics_residual))
        confidence == RSub(One, RAdd(RMul(w_ml, a), RMul(w_physics, r)))
        health_index == PyInt(RMul(RInt(100), confidence))
    IN  [health_index |-> health_index,
         health_confidence |-> PyRound3(confidence),
         anomaly_score |-> PyRound3(a),
         physics_residual |-> PyRound3(r)]

\* Mutants of compute: rounding to nearest instead of truncating, and a
\* fusion that forgets to take the complement of the weighted sum.
compute_rounded(w_ml, w_physics, anomaly_score, physics_residual) ==
    LET a == PyMin(One, PyMax(Zero, anomaly_score))
        r == PyMin(One, PyMax(Zero, physics_residual))
        confidence ==
            RSub(One, PyMin(One, RAdd(RMul(w_ml, a), RMul(w_physics, r))))
        health_index ==
            PyInt(RAdd(RMul(RInt(100), confidence), Rat(1, 2)))
    IN  [health_index |-> health_index,
         health_confidence |-> PyRound3(confidence),
         anomaly_score |-> PyRound3(a),
         physics_residual |-> PyRound3(r)]

compute_noComplement(w_ml, w_physics, anomaly_score, physics_residual) ==
    LET a == PyMin(One, PyMax(Zero, anomaly_score))
        r == PyMin(One, PyMax(Zero, physics_residual))
        confidence == PyMin(One, RAdd(RMul(w_ml, a), RMul(w_physics, r)))
        health_index == PyInt(RMul(RInt(100), confidence))
    IN  [health_index |-> health_index,
         health_confidence |-> PyRound3(confidence),
         anomaly_score |-> PyRound3(a),
         physics_residual |-> PyRound3(r)]

\* HealthFusion.compute
compute(w_ml, w_physics, anomaly_score, physics_residual) ==
    LET a == PyMin(One, PyMax(Zero, anomaly_score))
        r == PyMin(One, PyMax(Zero, physics_residual))
        confidence ==
            RSub(One, PyMin(One, RAdd(RMul(w_ml, a), RMul(w_physics, r))))
        health_index == PyInt(RMul(RInt(100), confidence))
    IN  [health_index |-> health_index,
         health_confidence |-> PyRound3(confidence),
         anomaly_score |-> PyRound3(a),
         physics_residual |-> PyRound3(r)]

\* The weights of a HealthFusion that was never instantiated.
NoInstance == [kind |-> "no instance"]

\* HealthFusion.__init__: raises ValueError before any attribute is set
\* unless both weights lie in [0, 1].
FusionConstructed(w_ml, w_physics) ==
    /\ fusionCall = NoCall
    /\ fusionPrev = NoCall
    /\ historyCall = NoCall
    /\ IF ValidWeights(w_ml, w_physics)
       THEN /\ ml_weight = w_ml
            /\ physics_weight = w_physics
            /\ fusionInit = [ml_weight |-> w_ml, physics_weight |-> w_physics,
                             raised |-> "no"]
       ELSE /\ ml_weight = NoInstance
            /\ physics_weight = NoInstance
            /\ fusionInit = [ml_weight |-> w_ml, physics_weight |-> w_physics,
                             raised |-> "ValueError"]

\* compute() is a method: it needs an instance.
Compute(anomaly_score, physics_residual) ==
    /\ fusionInit.raised = "no"
    /\ fusionPrev' = fusionCall
    /\ fusionCall' =
          [kind |-> "compute",
           anomaly_score |-> anomaly_score,
           physics_residual |-> physics_residual,
           result |-> compute(ml_weight, physics_weight,
                              anomaly_score, physics_residual)]
    /\ UNCHANGED <<ml_weight, physics_weight, fusionInit, historyCall>>

\* An optional history argument: None, or a list (possibly empty).
NoneHistory == [given |-> FALSE, values |-> <<>>]
HistoryList(values) == [given |-> TRUE, values |-> values]

\* sum(values) / len(values)
RECURSIVE PySum(_)
PySum(values) ==
    IF values = <<>> THEN Zero ELSE RAdd(Head(values), PySum(Tail(values)))
PyMean(values) == RDiv(PySum(values), RInt(Len(values)))

\* Mutant of smoothed: the two blending factors are swapped.
smoothed_swapped(current, history, history_weight) ==
    IF history.given /\ history.values # <<>>
    THEN RAdd(RMul(history_weight, current),
              RMul(RSub(One, history_weight), PyMean(history.values)))
    ELSE current

\* The smoothing of one signal in compute_with_history: `if history:` is
\* true for a non-empty list only.
smoothed(current, history, history_weight) ==
    IF history.given /\ history.values # <<>>
    THEN RAdd(RMul(RSub(One, history_weight), current),
              RMul(history_weight, PyMean(history.values)))
    ELSE current

\* HealthFusion.compute_with_history
compute_with_history(w_ml, w_physics, current_anomaly, current_residual, history_anomaly, history_residual, history_weight) ==
    compute(w_ml, w_physics,
            smoothed(current_anomaly, history_anomaly, history_weight),
            smoothed(current_residual, history_residual, history_weight))

ComputeWithHistory(current_anomaly, current_residual, history_anomaly, history_residual, history_weight) ==
    /\ fusionInit.raised = "no"
    /\ historyCall' =
          [kind |-> "compute_with_history",
           current_anomaly |-> current_anomaly,
           current_residual |-> current_residual,
           history_anomaly |-> history_anomaly,
           history_residual |-> history_residual,
           history_weight |-> history_weight,
           result |-> compute_with_history(
                         ml_weight, physics_weight, current_anomaly,
                         current_residual, history_anomaly,
                         history_residual, history_weight)]
    /\ UNCHANGED <<ml_weight, physics_weight, fusionInit, fusionCall,
                   fusionPrev>>

\* ------------------------------------------------------------------------
\* AnomalyDetector (ml_model.py)
\* ------------------------------------------------------------------------
MaxWindow == 3       \* largest window_size offered to the constructor
MaxMinSamples == 3   \* largest min_samples offered to the constructor
MaxPushes == 4       \* longest recorded push history

\* LinearModelCoefficients defaults.
DefaultCoefficients == [base |-> Rat(1, 2), k1 |-> Rat(1, 1000), k2 |-> Rat(2, 1000)]

\* DetectorConfig defaults.
DefaultConfig ==
    [threshold_vib_rms |-> RInt(3), threshold_factor |-> RInt(2),
     zscore_threshold |-> RInt(3), min_samples |-> 20, window_size |-> 200,
     coefficients |-> DefaultCoefficients]

\* Thresholds and coefficients offered to the constructor: the defaults; a
\* tuning with a non-positive z-score threshold, a lower vibration limit and
\* a baseline that is negative at the default operating point; and a tuning
\* with a high baseline (negative residuals) and a low z-score threshold.
Tunings ==
    { [threshold_vib_rms |-> RInt(3), threshold_factor |-> RInt(2),
       zscore_threshold |-> RInt(3), coefficients |-> DefaultCoefficients],
      [threshold_vib_rms |-> RInt(3), threshold_factor |-> Rat(1, 2),
       zscore_threshold |-> RInt(0),
       coefficients |-> [base |-> RInt(-2), k1 |-> Rat(1, 1000),
                         k2 |-> Rat(2, 1000)]],
      [threshold_vib_rms |-> RInt(3), threshold_factor |-> RInt(2),
       zscore_threshold |-> Rat(1, 2),
       coefficients |-> [base |-> RInt(3), k1 |-> Rat(1, 1000),
                         k2 |-> Rat(2, 1000)]] }

DetectorConfigs ==
    { [threshold_vib_rms |-> t.threshold_vib_rms,
       threshold_factor |-> t.threshold_factor,
       zscore_threshold |-> t.zscore_threshold,
       min_samples |-> m, window_size |-> w,
       coefficients |-> t.coefficients] :
         t \in Tunings, m \in 0..MaxMinSamples, w \in 0..MaxWindow }

\* Sensor readings offered to detect(): vib_rms, omega, load, all >= 0
\* (omega and load at the defaults of detect()).
Readings ==
    { [vib_rms |-> v, omega |-> RInt(100), load |-> RInt(500)] :
         v \in { Rat(8, 5), Rat(13, 5), RInt(7) } }

\* The tracker of a detector right after __init__.
EmptyTracker == [residuals |-> <<>>, sum |-> Zero, sum_sq |-> Zero]

\* A model file (JSON).  A value of a field is absent, a number, a text
\* that is no number ("abc"), or null.
NoModel == [kind |-> "none"]
Absent == [kind |-> "absent"]
Number(x) == [kind |-> "number", value |-> x]
Text == [kind |-> "text"]
Null == [kind |-> "null"]
NotAMapping == [kind |-> "not a mapping"]
NoThresholds ==
    [kind |-> "mapping", vib_rms |-> Absent, factor |-> Absent,
     zscore |-> Absent, min_samples |-> Absent, window_size |-> Absent]
NoCoefficients ==
    [kind |-> "mapping", base |-> Absent, k1 |-> Absent, k2 |-> Absent]
ModelObject(thresholds, coefficients) ==
    [kind |-> "object", thresholds |-> thresholds,
     coefficients |-> coefficients]

\* float(value) / int(value) of a field, `current` when the key is absent:
\* a text that is no number raises ValueError, null raises TypeError.
Converted(field, current, asInt) ==
    IF field.kind = "absent" THEN [raised |-> "no", value |-> current]
    ELSE IF field.kind = "number"
         THEN [raised |-> "no",
               value |-> IF asInt THEN PyInt(field.value) ELSE field.value]
    ELSE IF field.kind = "text" THEN [raised |-> "ValueError", value |-> current]
    ELSE [raised |-> "TypeError", value |-> current]

\* The threshold assignments of _load_model_file, in source order: JSON
\* key, DetectorConfig attribute, converted with int().
ThresholdFields ==
    << <<"vib_rms", "threshold_vib_rms", FALSE>>,
       <<"factor", "threshold_factor", FALSE>>,
       <<"zscore", "zscore_threshold", FALSE>>,
       <<"min_samples", "min_samples", TRUE>>,
       <<"window_size", "window_size", TRUE>> >>

\* Assignments i.. of the thresholds: each attribute is assigned as soon as
\* its value converts; the first failing conversion ends the block.
RECURSIVE AssignThresholds(_, _, _)
AssignThresholds(cfg, thresholds, i) ==
    IF i > Len(ThresholdFields) THEN [raised |-> "no", config |-> cfg]
    ELSE LET key == ThresholdFields[i][1]
             attr == ThresholdFields[i][2]
             c == Converted(thresholds[key], cfg[attr], ThresholdFields[i][3])
         IN  IF c.raised # "no" THEN [raised |-> c.raised, config |-> cfg]
             ELSE AssignThresholds([cfg EXCEPT ![attr] = c.value],
                                   thresholds, i + 1)

\* The coefficients are converted one by one and assigned together.
AssignCoefficients(cfg, coefficients) ==
    LET base == Converted(coefficients.base, cfg.coefficients.base, FALSE)
        k1 == Converted(coefficients.k1, cfg.coefficients.k1, FALSE)
        k2 == Converted(coefficients.k2, cfg.coefficients.k2, FALSE)
        failed == IF base.raised # "no" THEN base.raised
                  ELSE IF k1.raised # "no" THEN k1.raised
                  ELSE k2.raised
    IN  IF failed # "no" THEN [raised |-> failed, config |-> cfg]
        ELSE [raised |-> "no",
              config |-> [cfg EXCEPT !.coefficients =
                             [base |-> base.value, k1 |-> k1.value,
                              k2 |-> k2.value]]]

\* The except clause of _load_model_file: JSONDecodeError, OSError and
\* ValueError end the call normally; anything else propagates.
Caught(outcome) ==
    IF outcome.raised = "ValueError"
    THEN [raised |-> "no", config |-> outcome.config]
    ELSE outcome

\* AnomalyDetector._load_model_file(path), given what Path.exists() did:
\* whether it raised and the configuration it leaves.
load_model_file(cfg, file, existsOutcome) ==
    IF existsOutcome = "OSError" THEN [raised |-> "OSError", config |-> cfg]
    ELSE IF existsOutcome = "False" THEN [raised |-> "no", config |-> cfg]
    ELSE IF file.kind \in {"unreadable", "invalid json"}
         THEN [raised |-> "no", config |-> cfg]
    ELSE IF file.kind = "wrong shape"
         THEN [raised |-> "AttributeError", config |-> cfg]
    ELSE IF file.thresholds.kind # "mapping"
              \/ file.coefficients.kind # "mapping"
         THEN [raised |-> "AttributeError", config |-> cfg]
    ELSE LET t == AssignThresholds(cfg, file.thresholds, 1)
         IN  IF t.raised # "no" THEN Caught(t)
             ELSE Caught(AssignCoefficients(t.config, file.coefficients))

\* Model files offered to the constructor.  The unloadable ones: absent,
\* a path that cannot be examined, a file that cannot be opened, invalid
\* JSON, a top-level list, "thresholds": null, and objects with a field
\* that is a non-numeric text or null, first or after good fields.
MissingModel == [kind |-> "missing"]
UnstatableModel == [kind |-> "unstatable"]
UnreadableModel == [kind |-> "unreadable"]
InvalidJsonModel == [kind |-> "invalid json"]
WrongShapeModel == [kind |-> "wrong shape"]
TunedThresholds ==
    [NoThresholds EXCEPT !.vib_rms = Number(Rat(5, 2)),
                         !.factor = Number(Rat(3, 2)),
                         !.zscore = Number(RInt(2)),
                         !.min_samples = Number(RInt(2)),
                         !.window_size = Number(RInt(3))]
TunedCoefficients ==
    [NoCoefficients EXCEPT !.base = Number(RInt(1)),
                           !.k1 = Number(Rat(1, 500))]
WellFormedModels ==
    { ModelObject(NoThresholds, NoCoefficients),
      ModelObject(TunedThresholds, TunedCoefficients),
      ModelObject([NoThresholds EXCEPT !.window_size = Number(RInt(2)),
                                       !.min_samples = Number(RInt(1))],
                  NoCoefficients) }
MalformedModels ==
    { MissingModel, UnstatableModel, UnreadableModel, InvalidJsonModel,
      WrongShapeModel,
      ModelObject(NotAMapping, NoCoefficients),
      ModelObject([NoThresholds EXCEPT !.vib_rms = Text], TunedCoefficients),
      ModelObject([TunedThresholds EXCEPT !.factor = Text], NoCoefficients),
      ModelObject([TunedThresholds EXCEPT !.window_size = Text],
                  NoCoefficients),
      ModelObject([TunedThresholds EXCEPT !.zscore = Null], NoCoefficients),
      ModelObject(TunedThresholds, [TunedCoefficients EXCEPT !.k2 = Text]),
      ModelObject(NoThresholds, [TunedCoefficients EXCEPT !.k2 = Null]) }
ModelFiles == WellFormedModels \cup MalformedModels

\* AnomalyDetector.__init__ (without a model file)
DetectorConstructed(cfg) ==
    /\ config = cfg
    /\ residuals = <<>>
    /\ sum = Zero
    /\ sum_sq = Zero
    /\ detCall = NoCall
    /\ pushed = <<>>
    /\ fresh = [tracker |-> EmptyTracker, outcome |-> NoCall]
    /\ afterReset = "none"
    /\ detInit = [model_path |-> NoModel, raised |-> "no"]

\* AnomalyDetector.__init__ with a model file over the default arguments.
\* When _load_model_file raises there is no detector; config shows what
\* the half-built object held.
DetectorLoaded(file) ==
    \E e \in path_exists(file) :
       LET loaded == load_model_file(DefaultConfig, file, e)
       IN  /\ config = loaded.config
           /\ residuals = <<>>
           /\ sum = Zero
           /\ sum_sq = Zero
           /\ detCall = NoCall
           /\ pushed = <<>>
           /\ fresh = [tracker |-> EmptyTracker, outcome |-> NoCall]
           /\ afterReset = "none"
           /\ detInit = [model_path |-> file, raised |-> loaded.raised]

\* AnomalyDetector._estimate_expected
estimate_expected(cfg, omega, load) ==
    LET coeffs == cfg.coefficients
    IN  RAdd(RAdd(coeffs.base, RMul(coeffs.k1, omega)), RMul(coeffs.k2, load))

\* Mutants of _update_residual_stats: the evicted value stays in the running
\* sum; the evicted value stays in the running sum of squares.
update_residual_stats_keepSum(cfg, t, residual) ==
    LET full == Len(t.residuals) = cfg.window_size
    IN  IF full /\ t.residuals = <<>>
        THEN [raised |-> "IndexError", tracker |-> t]
        ELSE LET oldest == Head(t.residuals)
                 kept == IF full THEN Tail(t.residuals) ELSE t.residuals
                 q1 == IF full THEN RSub(t.sum_sq, RMul(oldest, oldest))
                       ELSE t.sum_sq
             IN  [raised |-> "no",
                  tracker |-> [residuals |-> Append(kept, residual),
                               sum |-> RAdd(t.sum, residual),
                               sum_sq |-> RAdd(q1, RMul(residual, residual))]]

update_residual_stats_keepSquare(cfg, t, residual) ==
    LET full == Len(t.residuals) = cfg.window_size
    IN  IF full /\ t.residuals = <<>>
        THEN [raised |-> "IndexError", tracker |-> t]
        ELSE LET oldest == Head(t.residuals)
                 kept == IF full THEN Tail(t.residuals) ELSE t.residuals
                 s1 == IF full THEN RSub(t.sum, oldest) ELSE t.sum
             IN  [raised |-> "no",
                  tracker |-> [residuals |-> Append(kept, residual),
                               sum |-> RAdd(s1, residual),
                               sum_sq |-> RAdd(t.sum_sq,
                                               RMul(residual, residual))]]

\* AnomalyDetector._update_residual_stats on tracker t with deque maxlen =
\* cfg.window_size.  popleft() on an empty deque (maxlen 0) raises IndexError
\* before anything is written.
update_residual_stats(cfg, t, residual) ==
    LET full == Len(t.residuals) = cfg.window_size
    IN  IF full /\ t.residuals = <<>>
        THEN [raised |-> "IndexError", tracker |-> t]
        ELSE LET oldest == Head(t.residuals)
                 kept == IF full THEN Tail(t.residuals) ELSE t.residuals
                 s1 == IF full THEN RSub(t.sum, oldest) ELSE t.sum
                 q1 == IF full THEN RSub(t.sum_sq, RMul(oldest, oldest))
                       ELSE t.sum_sq
             IN  [raised |-> "no",
                  tracker |-> [residuals |-> Append(kept, residual),
                               sum |-> RAdd(s1, residual),
                               sum_sq |-> RAdd(q1, RMul(residual, residual))]]

\* Mutant of _compute_zscore: min_samples is ignored (only n < 2 returns 0).
compute_zscore_noMinSamples(cfg, t, residual) ==
    LET n == Len(t.residuals)
    IN  IF n < 2 THEN Zero
        ELSE LET mean == RDiv(t.sum, RInt(n))
                 variance ==
                     PyMax(Zero, RSub(RDiv(t.sum_sq, RInt(n)), RMul(mean, mean)))
                 std == IF ExceedsNano(variance)
                        THEN PySqrt(variance) ELSE Rat(1, 1000000)
             IN  RDiv(RAbs(RSub(residual, mean)), std)

\* AnomalyDetector._compute_zscore
compute_zscore(cfg, t, residual) ==
    LET n == Len(t.residuals)
        least == IF cfg.min_samples > 2 THEN cfg.min_samples ELSE 2
    IN  IF n < least THEN Zero
        ELSE LET mean == RDiv(t.sum, RInt(n))
                 variance ==
                     PyMax(Zero, RSub(RDiv(t.sum_sq, RInt(n)), RMul(mean, mean)))
                 std == IF ExceedsNano(variance)
                        THEN PySqrt(variance) ELSE Rat(1, 1000000)
             IN  RDiv(RAbs(RSub(residual, mean)), std)

\* Mutants of detect: the hard vibration override is missing; the ratio is
\* taken of the signed residual instead of its absolute value.
detect_noOverride(cfg, t, vib_rms, omega, load) ==
    LET expected_vib == estimate_expected(cfg, omega, load)
        residual == RSub(vib_rms, expected_vib)
        upd == update_residual_stats(cfg, t, residual)
    IN  IF upd.raised # "no"
        THEN [tracker |-> t,
              outcome |-> [kind |-> "raise", exc |-> upd.raised,
                           residual |-> residual,
                           expected_vib |-> expected_vib]]
        ELSE LET zscore == compute_zscore(cfg, upd.tracker, residual)
                 ratio == RDiv(RAbs(residual),
                               PyMax(expected_vib, Rat(1, 2)))
                 zscore_score ==
                     PyMin(One, RDiv(zscore,
                                     PyMax(cfg.zscore_threshold, Rat(1, 10))))
                 ratio_score == PyMin(One, ratio)
                 blended ==
                     PyMin(One, RAdd(RMul(Rat(1, 2), ratio_score),
                                     RMul(Rat(1, 2), zscore_score)))
                 anomaly_score == blended
             IN  [tracker |-> upd.tracker,
                  outcome |-> [kind |-> "return", score |-> anomaly_score,
                               zscore |-> zscore, residual |-> residual,
                               expected_vib |-> expected_vib]]

detect_noAbs(cfg, t, vib_rms, omega, load) ==
    LET expected_vib == estimate_expected(cfg, omega, load)
        residual == RSub(vib_rms, expected_vib)
        upd == update_residual_stats(cfg, t, residual)
    IN  IF upd.raised # "no"
        THEN [tracker |-> t,
              outcome |-> [kind |-> "raise", exc |-> upd.raised,
                           residual |-> residual,
                           expected_vib |-> expected_vib]]
        ELSE LET zscore == compute_zscore(cfg, upd.tracker, residual)
                 ratio == RDiv(residual,
                               PyMax(expected_vib, Rat(1, 2)))
                 zscore_score ==
                     PyMin(One, RDiv(zscore,
                                     PyMax(cfg.zscore_threshold, Rat(1, 10))))
                 ratio_score == PyMin(One, ratio)
                 blended ==
                     PyMin(One, RAdd(RMul(Rat(1, 2), ratio_score),
                                     RMul(Rat(1, 2), zscore_score)))
                 anomaly_score ==
                     IF RLt(RMul(cfg.threshold_vib_rms, cfg.threshold_factor),
                            vib_rms)
                     THEN PyMax(blended, Rat(4, 5))
                     ELSE blended
             IN  [tracker |-> upd.tracker,
                  outcome |-> [kind |-> "return", score |-> anomaly_score,
                               zscore |-> zscore, residual |-> residual,
                               expected_vib |-> expected_vib]]

\* AnomalyDetector.detect on tracker t: the outcome and the tracker after it.
detect(cfg, t, vib_rms, omega, load) ==
    LET expected_vib == estimate_expected(cfg, omega, load)
        residual == RSub(vib_rms, expected_vib)
        upd == update_residual_stats(cfg, t, residual)
    IN  IF upd.raised # "no"
        THEN [tracker |-> t,
              outcome |-> [kind |-> "raise", exc |-> upd.raised,
                           residual |-> residual,
                           expected_vib |-> expected_vib]]
        ELSE LET zscore == compute_zscore(cfg, upd.tracker, residual)
                 ratio == RDiv(RAbs(residual),
                               PyMax(expected_vib, Rat(1, 2)))
                 zscore_score ==
                     PyMin(One, RDiv(zscore,
                                     PyMax(cfg.zscore_threshold, Rat(1, 10))))
                 ratio_score == PyMin(One, ratio)
                 blended ==
                     PyMin(One, RAdd(RMul(Rat(1, 2), ratio_score),
                                     RMul(Rat(1, 2), zscore_score)))
                 anomaly_score ==
                     IF RLt(RMul(cfg.threshold_vib_rms, cfg.threshold_factor),
                            vib_rms)
                     THEN PyMax(blended, Rat(4, 5))
                     ELSE blended
             IN  [tracker |-> upd.tracker,
                  outcome |-> [kind |-> "return", score |-> anomaly_score,
                               zscore |-> zscore, residual |-> residual,
                               expected_vib |-> expected_vib]]

\* AnomalyDetector.get_statistics (variance is the local it derives std from)
get_statistics(t) ==
    LET n == Len(t.residuals)
    IN  IF n = 0
        THEN [mean |-> Zero, variance |-> Zero, std |-> Zero, count |-> 0]
        ELSE LET mean == RDiv(t.sum, RInt(n))
                 variance ==
                     PyMax(Zero, RSub(RDiv(t.sum_sq, RInt(n)), RMul(mean, mean)))
             IN  [mean |-> mean, variance |-> variance,
                  std |-> PySqrt(variance), count |-> n]

\* Mutant of reset: the window is cleared, the running aggregates are kept.
reset_keepAggregates(t) ==
    [residuals |-> <<>>, sum |-> t.sum, sum_sq |-> t.sum_sq]

\* AnomalyDetector.reset
reset(t) == [residuals |-> <<>>, sum |-> Zero, sum_sq |-> Zero]

Tracker == [residuals |-> residuals, sum |-> sum, sum_sq |-> sum_sq]

\* One detect() call; the fresh detector receives the same reading.
Detect(vib_rms, omega, load) ==
    \E d \in { detect(config, Tracker, vib_rms, omega, load) },
       f \in { detect(config, fresh.tracker, vib_rms, omega, load) } :
        /\ detInit.raised = "no"
        /\ Len(pushed) < MaxPushes
        /\ residuals' = d.tracker.residuals
        /\ sum' = d.tracker.sum
        /\ sum_sq' = d.tracker.sum_sq
        /\ detCall' = [kind |-> "detect", vib_rms |-> vib_rms,
                       omega |-> omega, load |-> load, outcome |-> d.outcome]
        /\ pushed' = IF d.outcome.kind = "return"
                     THEN Append(pushed, d.outcome.residual) ELSE pushed
        /\ fresh' = [tracker |-> f.tracker, outcome |-> f.outcome]
        /\ UNCHANGED <<config, afterReset, detInit>>

\* One reset() call; a fresh detector is constructed beside it.
Reset ==
    LET t == reset(Tracker)
    IN  /\ detInit.raised = "no"
        /\ residuals' = t.residuals
        /\ sum' = t.sum
        /\ sum_sq' = t.sum_sq
        /\ detCall' = [kind |-> "reset"]
        /\ pushed' = <<>>
        /\ fresh' = [tracker |-> EmptyTracker, outcome |-> NoCall]
        /\ afterReset' = IF residuals = <<>> THEN "empty" ELSE "used"
        /\ UNCHANGED <<config, detInit>>

\* ------------------------------------------------------------------------
\* PolicyEngine (policy_engine.py)
\* ------------------------------------------------------------------------
\* Strings the engine parses are sequences of one-character strings.
UpperCase ==
    <<"A", "B", "C", "D", "E", "F", "G", "H", "I", "J", "K", "L", "M",
      "N", "O", "P", "Q", "R", "S", "T", "U", "V", "W", "X", "Y", "Z">>
LowerCase ==
    <<"a", "b", "c", "d", "e", "f", "g", "h", "i", "j", "k", "l", "m",
      "n", "o", "p", "q", "r", "s", "t", "u", "v", "w", "x", "y", "z">>
Digits == <<"0", "1", "2", "3", "4", "5", "6", "7", "8", "9">>
Whitespace == {" ", "\t", "\n"}

IsDigit(c) == \E i \in 1..10 : Digits[i] = c
DigitValue(c) == (CHOOSE i \in 1..10 : Digits[i] = c) - 1

\* str.lower()
LowerChar(c) ==
    IF \E i \in 1..26 : UpperCase[i] = c
    THEN LowerCase[CHOOSE i \in 1..26 : UpperCase[i] = c]
    ELSE c
PyLower(str) == [i \in 1..Len(str) |-> LowerChar(str[i])]

\* str.strip()
RECURSIVE LStrip(_)
LStrip(str) ==
    IF str # <<>> /\ Head(str) \in Whitespace THEN LStrip(Tail(str)) ELSE str
RECURSIVE RStrip(_)
RStrip(str) ==
    IF str # <<>> /\ str[Len(str)] \in Whitespace
    THEN RStrip(SubSeq(str, 1, Len(str) - 1)) ELSE str
PyStrip(str) == RStrip(LStrip(str))

\* str.find(sub): index of the first occurrence of sub in str, 0 if none.
OccursAt(str, sub, i) ==
    /\ i + Len(sub) - 1 <= Len(str)
    /\ SubSeq(str, i, i + Len(sub) - 1) = sub
PyFind(str, sub) ==
    IF \E i \in 1..Len(str) : OccursAt(str, sub, i)
    THEN CHOOSE i \in 1..Len(str) :
            /\ OccursAt(str, sub, i)
            /\ \A j \in 1..(i - 1) : ~OccursAt(str, sub, j)
    ELSE 0

\* sub in str
PyIn(sub, str) == PyFind(str, sub) # 0

\* str.split(sep)[1], for a str that contains sep: the text between the
\* first occurrence of sep and the next one (or the end).
SplitSecond(str, sep) ==
    LET i == PyFind(str, sep)
        rest == SubSeq(str, i + Len(sep), Len(str))
        j == PyFind(rest, sep)
    IN  IF j = 0 THEN rest ELSE SubSeq(rest, 1, j - 1)

RECURSIVE DigitsValue(_, _)
DigitsValue(str, acc) ==
    IF str = <<>> THEN acc
    ELSE IF Head(str) = "_" THEN DigitsValue(Tail(str), acc)
    ELSE DigitsValue(Tail(str), 10 * acc + DigitValue(Head(str)))

\* int(str): surrounding whitespace and one sign are accepted, then decimal
\* digits, single underscores allowed between digits; anything else raises
\* ValueError.
PyIntOfStr(str) ==
    LET t == PyStrip(str)
        signed == t # <<>> /\ Head(t) \in {"+", "-"}
        body == IF signed THEN Tail(t) ELSE t
        wellFormed ==
            /\ body # <<>>
            /\ \A i \in 1..Len(body) : IsDigit(body[i]) \/ body[i] = "_"
            /\ IsDigit(body[1]) /\ IsDigit(body[Len(body)])
            /\ \A i \in 1..(Len(body) - 1) :
                  ~(body[i] = "_" /\ body[i + 1] = "_")
    IN  IF ~wellFormed THEN [raised |-> "ValueError", value |-> 0]
        ELSE [raised |-> "no",
              value |-> IF signed /\ Head(t) = "-"
                        THEN -DigitsValue(body, 0) ELSE DigitsValue(body, 0)]

Returns(b) == [raised |-> "no", value |-> b]

\* Mutant of check_condition: "<" and ">" are looked for before "<=" and
\* ">=".
check_condition_shortFirst(condition, health) ==
    LET cond == PyLower(PyStrip(condition))
        thresholdAfter(op) == PyIntOfStr(PyStrip(SplitSecond(cond, op)))
        compare(op, holds(_)) ==
            LET threshold == thresholdAfter(op)
            IN  IF threshold.raised # "no" THEN threshold
                ELSE Returns(holds(threshold.value))
        le(k) == health <= k
        ge(k) == health >= k
        lt(k) == health < k
        gt(k) == health > k
        eq(k) == health = k
    IN  IF PyIn(<<"<">>, cond) THEN compare(<<"<">>, lt)
        ELSE IF PyIn(<<">">>, cond) THEN compare(<<">">>, gt)
        ELSE IF PyIn(<<"<", "=">>, cond) THEN compare(<<"<", "=">>, le)
        ELSE IF PyIn(<<">", "=">>, cond) THEN compare(<<">", "=">>, ge)
        ELSE IF PyIn(<<"=", "=">>, cond) THEN compare(<<"=", "=">>, eq)
        ELSE Returns(FALSE)

\* PolicyEngine._check_condition: Returns(TRUE/FALSE), or the exception
\* int() raises on the threshold text.
check_condition(condition, health) ==
    LET cond == PyLower(PyStrip(condition))
        thresholdAfter(op) == PyIntOfStr(PyStrip(SplitSecond(cond, op)))
        compare(op, holds(_)) ==
            LET threshold == thresholdAfter(op)
            IN  IF threshold.raised # "no" THEN threshold
                ELSE Returns(holds(threshold.value))
        le(k) == health <= k
        ge(k) == health >= k
        lt(k) == health < k
        gt(k) == health > k
        eq(k) == health = k
    IN  IF PyIn(<<"<", "=">>, cond) THEN compare(<<"<", "=">>, le)
        ELSE IF PyIn(<<">", "=">>, cond) THEN compare(<<">", "=">>, ge)
        ELSE IF PyIn(<<"<">>, cond) THEN compare(<<"<">>, lt)
        ELSE IF PyIn(<<">">>, cond) THEN compare(<<">">>, gt)
        ELSE IF PyIn(<<"=", "=">>, cond) THEN compare(<<"=", "=">>, eq)
        ELSE Returns(FALSE)

\* PolicyEngine.evaluate over the table from rule i on: the actions of the
\* first rule whose condition holds, [] if none; an exception raised by a
\* condition check leaves the loop.
RECURSIVE evaluate_from(_, _, _)
evaluate_from(table, i, health_index) ==
    IF i > Len(table) THEN [kind |-> "return", actions |-> <<>>]
    ELSE LET c == check_condition(table[i].condition, health_index)
         IN  IF c.raised # "no" THEN [kind |-> "raise", exc |-> c.raised]
             ELSE IF c.value
                  THEN [kind |-> "return", actions |-> table[i].actions]
                  ELSE evaluate_from(table, i + 1, health_index)

\* PolicyEngine.evaluate
evaluate(table, health_index) == evaluate_from(table, 1, health_index)

\* CAPABILITY_ELEMENT_PATHS
AssuranceStatePath == "Capabilities/ProcessCapability:Milling/AssuranceState"
SurfaceFinishPath == "Capabilities/ProcessCapability:Milling/SurfaceFinishGrade"
ToleranceClassPath == "Capabilities/ProcessCapability:Milling/ToleranceClass"
EnergyCostPath == "Capabilities/ProcessCapability:Milling/EnergyCostPerPart_kWh"

PolicyAction(path, value) == [path |-> path, value |-> value]
PolicyRule(condition, priority, actions) ==
    [condition |-> condition, priority |-> priority, actions |-> actions]

Str_health == <<"h", "e", "a", "l", "t", "h">>
Cond_lt_80 == Str_health \o <<" ", "<", " ", "8", "0">>
Cond_lt_90 == Str_health \o <<" ", "<", " ", "9", "0">>
Cond_ge_90 == Str_health \o <<" ", ">", "=", " ", "9", "0">>

NotAvailableActions ==
    << PolicyAction(AssuranceStatePath, "notAvailable"),
       PolicyAction(SurfaceFinishPath, "C"),
       PolicyAction(ToleranceClassPath, "±0.05mm"),
       PolicyAction(EnergyCostPath, "1.25") >>
OfferedActions ==
    << PolicyAction(AssuranceStatePath, "offered"),
       PolicyAction(SurfaceFinishPath, "B"),
       PolicyAction(EnergyCostPath, "1.0") >>
AssuredActions ==
    << PolicyAction(AssuranceStatePath, "assured"),
       PolicyAction(SurfaceFinishPath, "A"),
       PolicyAction(ToleranceClassPath, "±0.02mm"),
       PolicyAction(EnergyCostPath, "0.85") >>

\* Mutant of _load_default_rules: the rules are listed in ascending priority.
DefaultRules_ascending ==
    << PolicyRule(Cond_ge_90, 1, AssuredActions),
       PolicyRule(Cond_lt_90, 5, OfferedActions),
       PolicyRule(Cond_lt_80, 10, NotAvailableActions) >>

\* PolicyEngine._load_default_rules
DefaultRules ==
    << PolicyRule(Cond_lt_80, 10, NotAvailableActions),
       PolicyRule(Cond_lt_90, 5, OfferedActions),
       PolicyRule(Cond_ge_90, 1, AssuredActions) >>

\* list.sort(key=priority, reverse=True): descending, stable.
RECURSIVE InsertByPriority(_, _)
InsertByPriority(sorted, rule) ==
    IF sorted = <<>> THEN <<rule>>
    ELSE IF Head(sorted).priority >= rule.priority
         THEN <<Head(sorted)>> \o InsertByPriority(Tail(sorted), rule)
         ELSE <<rule>> \o sorted
RECURSIVE SortByPriority(_)
SortByPriority(table) ==
    IF table = <<>> THEN <<>>
    ELSE InsertByPriority(SortByPriority(SubSeq(table, 1, Len(table) - 1)),
                          table[Len(table)])

\* A rule resource: not configured (policy_file None), absent, unreadable as YAML with a "rules" list, or a
\* list of rule entries.  An action entry without a "path" key has
\* path = NoKey (reading it raises KeyError).
\* Further resources that cannot be loaded: a path whose stat() fails with
\* an error other than "not found" (a directory without search permission,
\* a name longer than the system allows); a file that exists and cannot be
\* opened; YAML whose top level is not a mapping.
NoKey == "<no key>"
NoFile == [kind |-> "none"]
MissingFile == [kind |-> "missing"]
MalformedFile == [kind |-> "malformed"]
UnstatableFile == [kind |-> "unstatable"]
UnreadableFile == [kind |-> "unreadable"]
WrongShapeFile == [kind |-> "wrong shape"]
RuleFile(entries) == [kind |-> "rules", rules |-> entries]

\* PolicyEngine.load_from_file: the rule table it leaves when it returns.
load_from_file(file) ==
    IF file.kind \in {"missing", "unstatable"} THEN DefaultRules
    ELSE IF file.kind \in {"malformed", "unreadable", "wrong shape"}
         THEN DefaultRules
    ELSE IF \E i \in 1..Len(file.rules) :
               \E j \in 1..Len(file.rules[i].actions) :
                  file.rules[i].actions[j].path = NoKey
         THEN DefaultRules
         ELSE SortByPriority(
                 [i \in 1..Len(file.rules) |->
                     PolicyRule(file.rules[i].when, file.rules[i].priority,
                                file.rules[i].actions)])

\* Rule resources offered to the engine.
MaxRules == 2        \* most rule entries in a rule resource
MaxHealthIndex == 100
HealthMargin == 2    \* evaluated indexes lie in -HealthMargin..100+HealthMargin

Cond_LE_50 == <<"H", "E", "A", "L", "T", "H", "<", "=", "5", "0">>
Cond_gt_95 == <<" ">> \o Str_health \o <<" ", ">", " ", "9", "5", " ">>
Cond_lt_abc == Str_health \o <<" ", "<", " ", "a", "b", "c">>
Cond_ne_5 == Str_health \o <<" ", "!", "=", " ", "5">>
Cond_eqlt_50 == Str_health \o <<" ", "=", "<", " ", "5", "0">>

RuleEntry(when, priority, actions) ==
    [when |-> when, priority |-> priority, actions |-> actions]

RuleEntries ==
    { RuleEntry(Cond_lt_90, 1, OfferedActions),
      RuleEntry(Cond_lt_80, 10, NotAvailableActions),
      RuleEntry(Cond_LE_50, 5, <<PolicyAction(SurfaceFinishPath, "D")>>),
      RuleEntry(Cond_gt_95, 1, AssuredActions),
      RuleEntry(Cond_lt_abc, 5, <<PolicyAction(SurfaceFinishPath, "E")>>),
      RuleEntry(Cond_ne_5, 0, <<PolicyAction(NoKey, "F")>>),
      RuleEntry(<<>>, 0, <<>>),
      RuleEntry(Cond_ge_90, 1, <<PolicyAction(SurfaceFinishPath, "G")>>),
      RuleEntry(Cond_eqlt_50, 7, <<PolicyAction(SurfaceFinishPath, "H")>>),
      RuleEntry(Cond_ne_5, 7, <<PolicyAction(SurfaceFinishPath, "I")>>) }

\* Longer resources: an unparseable condition declared before a parseable
\* one of the same priority, and a broken action entry after a good rule.
LongRuleFiles ==
    { RuleFile(<< RuleEntry(Cond_lt_abc, 5,
                            <<PolicyAction(SurfaceFinishPath, "E")>>),
                  RuleEntry(Cond_LE_50, 5,
                            <<PolicyAction(SurfaceFinishPath, "D")>>),
                  RuleEntry(Cond_lt_90, 1, OfferedActions) >>),
      RuleFile(<< RuleEntry(Cond_lt_90, 1, OfferedActions),
                  RuleEntry(Cond_ge_90, 1, AssuredActions),
                  RuleEntry(Cond_lt_80, 10,
                            <<PolicyAction(AssuranceStatePath, "offered"),
                              PolicyAction(NoKey, "C")>>) >>) }

RECURSIVE SeqsUpTo(_, _)
SeqsUpTo(S, k) ==
    IF k = 0 THEN { <<>> }
    ELSE LET shorter == SeqsUpTo(S, k - 1)
         IN  shorter \cup { Append(q, e) : q \in shorter, e \in S }

RuleFiles ==
    { MissingFile, MalformedFile, UnstatableFile, UnreadableFile,
      WrongShapeFile }
        \cup { RuleFile(q) : q \in SeqsUpTo(RuleEntries, MaxRules) }
        \cup LongRuleFiles

HealthIndexes == (0 - HealthMargin)..(MaxHealthIndex + HealthMargin)

\* Conditions of the grammar "health" <op> <integer>: the operator, the
\* threshold, the spelling of "health" and the whitespace before, between
\* and after the three tokens.
Operators == { "<", "<=", ">", ">=", "==" }
OperatorText(op) ==
    IF op = "<" THEN <<"<">>
    ELSE IF op = "<=" THEN <<"<", "=">>
    ELSE IF op = ">" THEN <<">">>
    ELSE IF op = ">=" THEN <<">", "=">>
    ELSE <<"=", "=">>
Thresholds == { -3, 0, 50, 100 }
HealthSpellings ==
    { Str_health, <<"H", "E", "A", "L", "T", "H">>,
      <<"H", "e", "a", "l", "t", "H">> }
Spacings ==
    { [lead |-> <<>>, left |-> <<>>, right |-> <<>>, trail |-> <<>>],
      [lead |-> <<>>, left |-> <<" ">>, right |-> <<" ">>, trail |-> <<>>],
      [lead |-> <<" ", " ">>, left |-> <<>>, right |-> <<"\t">>,
       trail |-> <<" ">>],
      [lead |-> <<"\t">>, left |-> <<" ", " ", " ">>, right |-> <<>>,
       trail |-> <<"\n">>] }

\* str(k) for an integer k, as the resource would spell the threshold.
DigitChar(d) == Digits[d + 1]
RECURSIVE NatText(_)
NatText(n) ==
    IF n < 10 THEN <<DigitChar(n)>>
    ELSE NatText(n \div 10) \o <<DigitChar(n % 10)>>
IntText(k) == IF k < 0 THEN <<"-">> \o NatText(-k) ELSE NatText(k)

GrammarConditions ==
    [op : Operators, k : Thresholds, health : HealthSpellings,
     spacing : Spacings]
ConditionText(c) ==
    c.spacing.lead \o c.health \o c.spacing.left \o OperatorText(c.op)
        \o c.spacing.right \o IntText(c.k) \o c.spacing.trail

\* The action of the one-rule resources that carry a grammar condition.
ProbeActions == <<PolicyAction(AssuranceStatePath, "offered")>>
ConditionFile(c) == RuleFile(<<RuleEntry(ConditionText(c), 1, ProbeActions)>>)

\* Health indexes on both sides of every threshold.
ThresholdSamples == { k + d : k \in Thresholds, d \in {-1, 0, 1} }

\* Health indexes evaluated against loaded rule tables: the ends of the
\* range and both sides of every threshold the rule entries use.
HealthSamples == { -1, 0, 5, 50, 51, 79, 80, 89, 90, 95, 96, 100 }

LoadRecord(kind, file, raised) ==
    [kind |-> kind, file |-> file, raised |-> raised]

\* PolicyEngine.__init__(policy_file): None loads the defaults.  When
\* load_from_file raises, the constructor raises: there is no engine, and
\* the half-built object holds the empty table assigned first.
PolicyConstructed(policy_file) ==
    /\ evalCall = NoCall
    /\ IF policy_file.kind = "none"
       THEN /\ rules = DefaultRules
            /\ loadCall = LoadRecord("init", policy_file, "no")
       ELSE \E e \in path_exists(policy_file) :
               IF e = "OSError"
               THEN /\ rules = <<>>
                    /\ loadCall = LoadRecord("init", policy_file, "OSError")
               ELSE /\ rules = load_from_file(policy_file)
                    /\ loadCall = LoadRecord("init", policy_file, "no")

\* The engine exists: its constructor returned.
PolicyInstance == ~(loadCall.kind = "init" /\ loadCall.raised # "no")

\* A reload; the record of the last evaluate() does not outlive the table
\* it scanned.  A reload that raises leaves the table as it was.
LoadFromFile(file) ==
    /\ PolicyInstance
    /\ \E e \in path_exists(file) :
          IF e = "OSError"
          THEN /\ loadCall' = LoadRecord("load", file, "OSError")
               /\ UNCHANGED <<rules, evalCall>>
          ELSE /\ rules' = load_from_file(file)
               /\ loadCall' = LoadRecord("load", file, "no")
               /\ evalCall' = NoCall

Evaluate(health_index) ==
    /\ PolicyInstance
    /\ evalCall' = [kind |-> "evaluate", health_index |-> health_index,
                    table |-> rules,
                    outcome |-> evaluate(rules, health_index)]
    /\ UNCHANGED <<rules, loadCall>>

\* ------------------------------------------------------------------------
\* Skill-Broker audit log (skill_broker/main.py)
\* ------------------------------------------------------------------------
MAX_AUDIT_LOG == 2   \* capacity of the log (1000 in the service)
MaxAppends == 3      \* longest recorded append history

AssetIds == { "cnc-1", "cnc-2" }

\* query parameters of GET /audit: asset_id omitted (None), empty, an asset
\* with entries, an asset without; limit from 0 to above the capacity.
NoAssetId == "<None>"
AssetFilters == { NoAssetId, "", "cnc-1", "cnc-3" }
Limits == 0..(MAX_AUDIT_LOG + 1)

\* AuditLogEntry; datetime.now() is the number of the append.
AuditLogEntry(timestamp, asset_id, action, path, new_value, reason) ==
    [timestamp |-> timestamp, asset_id |-> asset_id, action |-> action,
     path |-> path, new_value |-> new_value, reason |-> reason]

\* Mutant of audit_append: the newest entry is evicted instead of the
\* oldest.
audit_append_popLast(log, entry) ==
    LET grown == Append(log, entry)
    IN  IF Len(grown) > MAX_AUDIT_LOG
        THEN SubSeq(grown, 1, Len(grown) - 1) ELSE grown

\* Mutant of audit_append: the eviction is left for later.
audit_append_evictLater(log, entry) == Append(log, entry)

\* audit_log.append(entry); if len(audit_log) > MAX_AUDIT_LOG:
\* audit_log.pop(0)
audit_append(log, entry) ==
    LET grown == Append(log, entry)
    IN  IF Len(grown) > MAX_AUDIT_LOG THEN Tail(grown) ELSE grown

\* seq[start:] as Python slices it: a negative start counts from the end
\* and is clipped at the beginning; -0 is 0.
PySliceFrom(seq, start) ==
    LET n == Len(seq)
        from == IF start < 0
                THEN (IF n + start < 0 THEN 0 ELSE n + start)
                ELSE (IF start > n THEN n ELSE start)
    IN  SubSeq(seq, from + 1, n)

\* get_audit_log(asset_id, limit): the filter applies when asset_id is
\* truthy (neither None nor empty).
get_audit_log(log, asset_id, limit) ==
    LET entries ==
            IF asset_id # NoAssetId /\ asset_id # ""
            THEN SelectSeq(log, LAMBDA e : e.asset_id = asset_id)
            ELSE log
    IN  PySliceFrom(entries, -limit)

\* Capability elements that the rules write.
CapabilityPaths ==
    { AssuranceStatePath, SurfaceFinishPath, ToleranceClassPath,
      EnergyCostPath }

\* The capability submodel of a healthy machine, for every asset.
AssuredRegistry ==
    [a \in AssetIds |->
        [p \in CapabilityPaths |->
            CASE p = AssuranceStatePath -> "assured"
              [] p = SurfaceFinishPath -> "A"
              [] p = ToleranceClassPath -> "±0.02mm"
              [] OTHER -> "0.85"]]

\* Capability submodels an evaluation can find: a healthy machine, a
\* machine taken out of service, and values set by hand.
AssuredState == AssuredRegistry["cnc-1"]
DegradedState ==
    [p \in CapabilityPaths |->
        CASE p = AssuranceStatePath -> "notAvailable"
          [] p = SurfaceFinishPath -> "C"
          [] p = ToleranceClassPath -> "±0.05mm"
          [] OTHER -> "1.25"]
ManualState ==
    [p \in CapabilityPaths |->
        CASE p = AssuranceStatePath -> "offered"
          [] p = SurfaceFinishPath -> "A"
          [] p = ToleranceClassPath -> "±0.1mm"
          [] OTHER -> "2.0"]
PriorStates == { AssuredState, DegradedState, ManualState }

\* Conditions of the AAS environment: one element answers GET with a
\* server error, or with 404, or with a JSON number, or refuses PATCH.
NoFault == [kind |-> "none", path |-> ""]
Fault(kind, path) == [kind |-> kind, path |-> path]
RegistryFaults ==
    { NoFault,
      Fault("unreadable", ToleranceClassPath),
      Fault("absent", AssuranceStatePath),
      Fault("number", EnergyCostPath),
      Fault("unwritable", SurfaceFinishPath) }

\* Handlers that can be in flight together.
TaskIds == { "t1", "t2" }
IdleTask ==
    [source |-> "none", asset_id |-> "", reason |-> 0, actions |-> <<>>,
     i |-> 0, pc |-> "idle", old_value |-> "", applied |-> {},
     status |-> "none", result |-> <<>>]

\* The service at start-up: an empty log, no handler in flight.
BrokerStarted ==
    /\ audit_log = <<>>
    /\ appended = <<>>
    /\ auditQuery = NoCall
    /\ tasks = [t \in TaskIds |-> IdleTask]
    /\ registry = AssuredRegistry
    /\ fault = NoFault

Record(entry) ==
    /\ Len(appended) < MaxAppends
    /\ audit_log' = audit_append(audit_log, entry)
    /\ appended' = Append(appended, entry)
    /\ auditQuery' = NoCall

\* One pass of the loop of _evaluate_and_apply in which both calls to the
\* patcher succeed: action i of the rule that matched is written and
\* recorded.
PolicyPatch(asset_id, health_index, i) ==
    /\ PolicyInstance
    /\ Len(appended) < MaxAppends
    /\ \E outcome \in { evaluate(rules, health_index) } :
          /\ outcome.kind = "return"
          /\ i \in 1..Len(outcome.actions)
          /\ Record(AuditLogEntry(Len(appended) + 1, asset_id, "PATCH",
                                  outcome.actions[i].path,
                                  outcome.actions[i].value, health_index))

\* PATCH /capability when both calls to the patcher succeed.
ManualPatch(asset_id, path, value) ==
    Record(AuditLogEntry(Len(appended) + 1, asset_id, "MANUAL_PATCH", path,
                         value, "Manual admin override"))

\* GET /audit
GetAuditLog(asset_id, limit) ==
    /\ auditQuery' = [kind |-> "query", asset_id |-> asset_id,
                      limit |-> limit,
                      result |-> get_audit_log(audit_log, asset_id, limit)]
    /\ UNCHANGED <<audit_log, appended>>

\* ------------------------------------------------------------------------
\* Skill-Broker handlers, one await at a time (skill_broker/main.py)
\* ------------------------------------------------------------------------
\* AASPatcher.get_element_value: 404 gives None, another HTTP error status
\* is raised again; the body of the answer is returned as decoded.
get_element_value(f, path) ==
    CASE f.kind = "unreadable" /\ f.path = path -> [kind |-> "raise"]
      [] f.kind = "absent" /\ f.path = path ->
            [kind |-> "return", value |-> "None"]
      [] f.kind = "number" /\ f.path = path ->
            [kind |-> "return", value |-> "number"]
      [] OTHER -> [kind |-> "return", value |-> "str"]

\* AASPatcher.patch_element: raise_for_status() on the answer.
patch_element(f, path) ==
    IF f.kind = "unwritable" /\ f.path = path
    THEN [kind |-> "raise"] ELSE [kind |-> "return"]

\* AuditLogEntry(old_value=...): the field is `str | None`.
ValidOldValue(old_value) == old_value \in { "str", "None" }

\* A handler enters its loop over `actions`, or is done at once when there
\* is nothing to apply.
Started(t, source, asset_id, reason, actions, status) ==
    /\ tasks[t].pc = "idle"
    /\ tasks' = [tasks EXCEPT ![t] =
           [source |-> source, asset_id |-> asset_id, reason |-> reason,
            actions |-> actions, i |-> IF actions = <<>> THEN 0 ELSE 1,
            pc |-> IF actions = <<>> THEN "done" ELSE "get",
            old_value |-> "", applied |-> {},
            status |-> IF actions = <<>> THEN status ELSE "running",
            result |-> <<>>]]
    /\ UNCHANGED <<registry, fault, brokerVars>>

\* _evaluate_and_apply up to its first await: the rules are evaluated.
\* A ValueError out of evaluate() ends the handler.
EvaluateAndApply(t, source, asset_id, health_index) ==
    /\ PolicyInstance
    /\ tasks[t].pc = "idle"
    /\ \E outcome \in { evaluate(rules, health_index) } :
          IF outcome.kind = "return"
          THEN Started(t, source, asset_id, health_index, outcome.actions,
                       "returned")
          ELSE Started(t, source, asset_id, health_index, <<>>, "raised")

\* _handle_health_event, scheduled on the event loop by
\* MQTTSubscriber._on_message
HandleHealthEvent(t, asset_id, health_index) ==
    EvaluateAndApply(t, "event", asset_id, health_index)

\* One round of the asset loop of _periodic_evaluation, for an asset whose
\* HealthIndex could be read.
PeriodicEvaluation(t, asset_id, health_index) ==
    EvaluateAndApply(t, "poll", asset_id, health_index)

\* POST /evaluate
EvaluateHealth(t, asset_id, health_index) ==
    EvaluateAndApply(t, "post", asset_id, health_index)

\* PATCH /capability
PatchCapability(t, asset_id, path, value) ==
    Started(t, "manual", asset_id, "Manual admin override",
            <<PolicyAction(path, value)>>, "running")

\* The handler after action i: the next action, or the end.  The evaluation
\* returns `actions` whatever happened to them (POST /evaluate reports the
\* returned list as actions_taken); the manual patch answers 200, or 500
\* after an exception.
Advanced(task, failed) ==
    IF task.i < Len(task.actions)
    THEN [task EXCEPT !.i = task.i + 1, !.pc = "get", !.old_value = ""]
    ELSE [task EXCEPT !.pc = "done", !.old_value = "",
                      !.status = IF task.source # "manual" THEN "returned"
                                 ELSE IF failed THEN "500" ELSE "200",
                      !.result = IF task.source # "manual"
                                 THEN task.actions ELSE <<>>]

\* await aas_patcher.get_element_value(asset_id, action.path) completes.
GetElementValue(t) ==
    /\ tasks[t].pc = "get"
    /\ LET task == tasks[t]
           got == get_element_value(fault, task.actions[task.i].path)
       IN  tasks' = [tasks EXCEPT ![t] =
               IF got.kind = "raise" THEN Advanced(task, TRUE)
               ELSE [task EXCEPT !.pc = "patch", !.old_value = got.value]]
    /\ UNCHANGED <<registry, fault, brokerVars>>

\* await aas_patcher.patch_element(asset_id, action.path, action.value)
\* completes; on success the entry is built and appended and the oldest
\* entry evicted, all before the handler awaits again.
PatchElement(t) ==
    /\ tasks[t].pc = "patch"
    /\ LET task == tasks[t]
           action == task.actions[task.i]
           patched == patch_element(fault, action.path)
           entry == AuditLogEntry(Len(appended) + 1, task.asset_id,
                        IF task.source = "manual" THEN "MANUAL_PATCH"
                        ELSE "PATCH",
                        action.path, action.value, task.reason)
       IN  IF patched.kind = "raise"
           THEN /\ tasks' = [tasks EXCEPT ![t] = Advanced(task, TRUE)]
                /\ UNCHANGED <<registry, brokerVars>>
           ELSE /\ registry' = [registry EXCEPT
                                   ![task.asset_id][action.path] =
                                       action.value]
                /\ IF ValidOldValue(task.old_value)
                   THEN /\ audit_log' = audit_append(audit_log, entry)
                        /\ appended' = Append(appended, entry)
                        /\ auditQuery' = NoCall
                        /\ tasks' = [tasks EXCEPT ![t] =
                               Advanced([task EXCEPT !.applied =
                                            @ \cup {task.i}], FALSE)]
                   ELSE /\ tasks' = [tasks EXCEPT ![t] =
                               Advanced([task EXCEPT !.applied =
                                            @ \cup {task.i}], TRUE)]
                        /\ UNCHANGED brokerVars
    /\ UNCHANGED fault

\* The loop of _evaluate_and_apply when every patch succeeds: the writes
\* land on the capability submodel one after the other.
RECURSIVE patch_all(_, _, _)
patch_all(state, actions, j) ==
    IF j > Len(actions) THEN state
    ELSE patch_all([state EXCEPT ![actions[j].path] = actions[j].value],
                   actions, j + 1)

\* The same health index is evaluated for every asset and every patch
\* succeeds, no other handler being in flight.
EvaluatedAndApplied(health_index) ==
    /\ Evaluate(health_index)
    /\ \E outcome \in { evaluate(rules, health_index) } :
          /\ outcome.kind = "return"
          /\ registry' = [a \in AssetIds |->
                             patch_all(registry[a], outcome.actions, 1)]
    /\ UNCHANGED <<tasks, fault, brokerVars>>

\* ------------------------------------------------------------------------
\* Adaptiv-Monitor POST /assess, one await at a time
\* (adaptiv_monitor/main.py)
\* ------------------------------------------------------------------------
RequestIds == { "r1", "r2" }
IdleRequest ==
    [pc |-> "idle", asset_id |-> "", vib_rms |-> Zero,
     anomaly_score |-> Zero, physics_residual |-> Zero, health_index |-> 0]

\* The service at start-up: no request in flight; the second run has a
\* detector of its own, as empty as the first.
MonitorStarted ==
    /\ requests = [r \in RequestIds |-> IdleRequest]
    /\ twin = [tracker |-> EmptyTracker, outcome |-> NoCall, assets |-> <<>>,
               vib_rms |-> Zero]

\* What fmu_runner.simulate() can do: raise, return a result without the
\* key vib_rms_expected, or return an expected vibration.
FmuOutcomes ==
    { [kind |-> "raise", value |-> Zero],
      [kind |-> "nokey", value |-> Zero],
      [kind |-> "value", value |-> RInt(2)] }

\* Mutant of physics_residual: the residual is not capped at 1.
physics_residual_noCap(vib_rms, fmu) ==
    LET vib_expected == IF fmu.kind = "value" THEN fmu.value ELSE vib_rms
    IN  RDiv(RAbs(RSub(vib_rms, vib_expected)),
             PyMax(vib_expected, Rat(1, 10)))

\* Steps 2 and 3 of assess_health: the measured value stands in for the
\* expected one when the simulation fails or has no such key.
physics_residual(vib_rms, fmu) ==
    LET vib_expected == IF fmu.kind = "value" THEN fmu.value ELSE vib_rms
    IN  PyMin(One, RDiv(RAbs(RSub(vib_rms, vib_expected)),
                        PyMax(vib_expected, Rat(1, 10))))

\* assess_health up to its first await: detect() runs to its end on the
\* shared detector.  An exception out of detect() ends the request.
AssessHealth(r, asset_id, vib_rms, omega, load) ==
    /\ requests[r].pc = "idle"
    /\ fusionInit.raised = "no"
    /\ Detect(vib_rms, omega, load)
    /\ requests' = [requests EXCEPT ![r] =
           IF detCall'.outcome.kind = "return"
           THEN [pc |-> "simulate", asset_id |-> asset_id,
                 vib_rms |-> vib_rms,
                 anomaly_score |-> detCall'.outcome.score,
                 physics_residual |-> Zero, health_index |-> 0]
           ELSE IdleRequest]
    /\ UNCHANGED twin

\* await fmu_runner.simulate(...) completes; the residual and the fused
\* result are computed before the next await.
Simulated(r, fmu) ==
    /\ requests[r].pc = "simulate"
    /\ LET req == requests[r]
           residual == physics_residual(req.vib_rms, fmu)
           result == compute(ml_weight, physics_weight, req.anomaly_score,
                             residual)
       IN  requests' = [requests EXCEPT ![r] =
               [req EXCEPT !.pc = "report", !.physics_residual = residual,
                           !.health_index = result.health_index]]
    /\ UNCHANGED <<detectorVars, twin>>

\* The submodel update and the MQTT publication complete, and the
\* assessment is returned.
Reported(r) ==
    /\ requests[r].pc = "report"
    /\ requests' = [requests EXCEPT ![r] = IdleRequest]
    /\ UNCHANGED <<detectorVars, twin>>

\* The asset whose scores are compared between the two runs.
ObservedAsset == "cnc-2"

\* Step 1 of assess_health in two runs of the service: each run has the
\* one detector that lifespan() built, whatever the asset of the request.
\* The runs are sent the same requests, except that the readings of the
\* other assets may differ.
AssessedInBoth(asset_id, vib_rms, vib_other, omega, load) ==
    /\ asset_id = ObservedAsset => vib_other = vib_rms
    /\ Detect(vib_rms, omega, load)
    /\ \E d \in { detect(config, twin.tracker, vib_other, omega, load) } :
          twin' = [tracker |-> d.tracker, outcome |-> d.outcome,
                   assets |-> Append(twin.assets, asset_id),
                   vib_rms |-> vib_other]
    /\ UNCHANGED requests

\* ------------------------------------------------------------------------
\* Specifications
\* ------------------------------------------------------------------------
\* Settings defaults (adaptiv_monitor/config.py): ml 0.6, physics 0.4.
DefaultFusion == FusionConstructed(Rat(3, 5), Rat(2, 5))
DefaultDetector == DetectorConstructed(DefaultConfig)
DefaultPolicy == PolicyConstructed(NoFile) /\ BrokerStarted

InitFusion ==
    /\ MonitorStarted
    /\ \E w \in FusionWeights \cup InvalidFusionWeights :
          FusionConstructed(w[1], w[2])
    /\ DefaultDetector
    /\ DefaultPolicy

NextFusion ==
    /\ \E a \in FusionInputs, r \in FusionInputs : Compute(a, r)
    /\ UNCHANGED <<detectorVars, policyVars, brokerVars, taskVars,
                 monitorVars>>

SpecFusion == InitFusion /\ [][NextFusion]_vars

\* Smoothed fusion: current values, optional histories and history
\* weights offered to compute_with_history().
HistoryCurrents == { Rat(1, 8), Rat(4, 5), Rat(3, 2) }
HistoryResiduals == { Rat(1, 8), One }
Histories ==
    { NoneHistory, HistoryList(<<>>), HistoryList(<<Rat(1, 2)>>),
      HistoryList(<<Zero, Rat(1, 8), One>>) }
HistoryWeights == { Zero, Rat(3, 10), One }

InitFusionHistory ==
    /\ MonitorStarted
    /\ \E w \in FusionWeights : FusionConstructed(w[1], w[2])
    /\ DefaultDetector
    /\ DefaultPolicy

NextFusionHistory ==
    /\ \E ca \in HistoryCurrents, cr \in HistoryResiduals,
          ha \in Histories, hr \in Histories, hw \in HistoryWeights :
          ComputeWithHistory(ca, cr, ha, hr, hw)
    /\ UNCHANGED <<detectorVars, policyVars, brokerVars, taskVars,
                 monitorVars>>

SpecFusionHistory == InitFusionHistory /\ [][NextFusionHistory]_vars

InitDetector ==
    /\ MonitorStarted
    /\ \E cfg \in DetectorConfigs : DetectorConstructed(cfg)
    /\ DefaultFusion
    /\ DefaultPolicy

NextDetector ==
    /\ \/ \E rd \in Readings : Detect(rd.vib_rms, rd.omega, rd.load)
       \/ Reset
    /\ UNCHANGED <<fusionVars, policyVars, brokerVars, taskVars,
                 monitorVars>>

SpecDetector == InitDetector /\ [][NextDetector]_vars

\* A detector constructed with the default arguments and a model file.
InitDetectorLoad ==
    /\ MonitorStarted
    /\ \E file \in ModelFiles : DetectorLoaded(file)
    /\ DefaultFusion
    /\ DefaultPolicy

SpecDetectorLoad == InitDetectorLoad /\ [][NextDetector]_vars

InitPolicy ==
    /\ MonitorStarted
    /\ \E f \in {NoFile} \cup RuleFiles : PolicyConstructed(f)
    /\ BrokerStarted
    /\ DefaultFusion
    /\ DefaultDetector

NextPolicy ==
    /\ \/ \E h \in HealthSamples : Evaluate(h)
       \/ \E f \in RuleFiles : LoadFromFile(f)
    /\ UNCHANGED <<fusionVars, detectorVars, brokerVars, taskVars,
                 monitorVars>>

SpecPolicy == InitPolicy /\ [][NextPolicy]_vars

\* An engine loaded with a single rule whose condition is drawn from the
\* grammar.
InitCondition ==
    /\ MonitorStarted
    /\ \E c \in GrammarConditions : PolicyConstructed(ConditionFile(c))
    /\ BrokerStarted
    /\ DefaultFusion
    /\ DefaultDetector

NextCondition ==
    /\ \E h \in ThresholdSamples : Evaluate(h)
    /\ UNCHANGED <<fusionVars, detectorVars, brokerVars, taskVars,
                 monitorVars>>

SpecCondition == InitCondition /\ [][NextCondition]_vars

\* The broker with the built-in rule table: patches applied for an index
\* in the "offered" band and by hand, and audit queries.
InitAudit ==
    /\ MonitorStarted
    /\ DefaultPolicy
    /\ DefaultFusion
    /\ DefaultDetector

NextAudit ==
    /\ \/ \E a \in AssetIds, i \in 1..Len(OfferedActions) :
             PolicyPatch(a, 85, i)
       \/ \E a \in AssetIds : ManualPatch(a, SurfaceFinishPath, "A")
       \/ \E f \in AssetFilters, limit \in Limits : GetAuditLog(f, limit)
    /\ UNCHANGED <<fusionVars, detectorVars, policyVars, taskVars,
                 monitorVars>>

SpecAudit == InitAudit /\ [][NextAudit]_vars

\* The broker with the built-in rule table and two handlers in flight at
\* a time, against an AAS environment in one of its conditions.
BrokerHealth == { 50, 85 }

InitBroker ==
    /\ MonitorStarted
    /\ PolicyConstructed(NoFile)
    /\ DefaultFusion
    /\ DefaultDetector
    /\ audit_log = <<>>
    /\ appended = <<>>
    /\ auditQuery = NoCall
    /\ tasks = [t \in TaskIds |-> IdleTask]
    /\ registry = AssuredRegistry
    /\ fault \in RegistryFaults

NextBroker ==
    /\ \/ \E t \in TaskIds, a \in AssetIds, h \in BrokerHealth :
             \/ HandleHealthEvent(t, a, h)
             \/ PeriodicEvaluation(t, a, h)
             \/ EvaluateHealth(t, a, h)
       \/ \E t \in TaskIds, a \in AssetIds :
             PatchCapability(t, a, SurfaceFinishPath, "A")
       \/ \E t \in TaskIds : GetElementValue(t)
       \/ \E t \in TaskIds : PatchElement(t)
       \/ GetAuditLog(NoAssetId, MAX_AUDIT_LOG + 1) /\ UNCHANGED taskVars
    /\ UNCHANGED <<fusionVars, detectorVars, policyVars, monitorVars>>

SpecBroker == InitBroker /\ [][NextBroker]_vars

\* The monitor with the default thresholds and weights, two requests in
\* flight at a time; the window and the minimum history are also offered
\* scaled down, so that eviction and the z-score happen.
ScaledWindow == 2
MonitorConfigs ==
    { DefaultConfig,
      [DefaultConfig EXCEPT !.min_samples = ScaledWindow,
                            !.window_size = ScaledWindow] }
MonitorReadings ==
    { [vib_rms |-> v, omega |-> RInt(100), load |-> RInt(500)] :
         v \in { Rat(13, 5), Rat(61, 10) } }

InitMonitor ==
    /\ MonitorStarted
    /\ \E cfg \in MonitorConfigs : DetectorConstructed(cfg)
    /\ DefaultFusion
    /\ DefaultPolicy

NextMonitor ==
    /\ \/ \E r \in RequestIds, a \in AssetIds, rd \in MonitorReadings :
             AssessHealth(r, a, rd.vib_rms, rd.omega, rd.load)
       \/ \E r \in RequestIds, fmu \in FmuOutcomes : Simulated(r, fmu)
       \/ \E r \in RequestIds : Reported(r)
    /\ UNCHANGED <<fusionVars, policyVars, brokerVars, taskVars>>

SpecMonitor == InitMonitor /\ [][NextMonitor]_vars

\* Two runs of the monitor side by side, z-score active.
InitIsolation ==
    /\ MonitorStarted
    /\ DetectorConstructed([DefaultConfig EXCEPT
                               !.min_samples = ScaledWindow,
                               !.window_size = ScaledWindow + 1])
    /\ DefaultFusion
    /\ DefaultPolicy

NextIsolation ==
    /\ \E a \in AssetIds, rd \in MonitorReadings, other \in MonitorReadings :
          AssessedInBoth(a, rd.vib_rms, other.vib_rms, rd.omega, rd.load)
    /\ UNCHANGED <<fusionVars, policyVars, brokerVars, taskVars>>

SpecIsolation == InitIsolation /\ [][NextIsolation]_vars

\* The built-in rule table applied to two capability submodels at a time.
InitCapability ==
    /\ MonitorStarted
    /\ PolicyConstructed(NoFile)
    /\ DefaultFusion
    /\ DefaultDetector
    /\ audit_log = <<>>
    /\ appended = <<>>
    /\ auditQuery = NoCall
    /\ tasks = [t \in TaskIds |-> IdleTask]
    /\ registry \in [AssetIds -> PriorStates]
    /\ fault = NoFault

NextCapability ==
    /\ \E h \in HealthIndexes : EvaluatedAndApplied(h)
    /\ UNCHANGED <<fusionVars, detectorVars, monitorVars>>

SpecCapability == InitCapability /\ [][NextCapability]_vars

\* The engine with its built-in rule table, evaluated on every index.
InitPolicyDefault ==
    /\ MonitorStarted
    /\ DefaultPolicy
    /\ DefaultFusion
    /\ DefaultDetector

NextPolicyDefault ==
    /\ \E h \in HealthIndexes : Evaluate(h)
    /\ UNCHANGED <<fusionVars, detectorVars, brokerVars, taskVars,
                 monitorVars>>

SpecPolicyDefault == InitPolicyDefault /\ [][NextPolicyDefault]_vars

\* ------------------------------------------------------------------------
\* Properties of PolicyEngine
\* ------------------------------------------------------------------------
\* The condition of a rule holds for h (a check that raises does not hold).
ConditionHolds(rule, h) == check_condition(rule.condition, h) = Returns(TRUE)

\* C1: evaluate(health_index) scans the rule table in stored order and
\* returns the action list of the first rule whose condition holds; if no
\* rule's condition holds it returns an empty list and raises nothing.
C1_FirstMatchOrEmpty ==
    evalCall.kind = "evaluate" =>
        LET h == evalCall.health_index
            table == evalCall.table
            matching == { i \in 1..Len(table) : ConditionHolds(table[i], h) }
        IN  /\ evalCall.outcome.kind = "return"
            /\ evalCall.outcome.actions =
                  IF matching = {} THEN <<>>
                  ELSE table[CHOOSE i \in matching :
                                \A j \in matching : i <= j].actions

\* The last load read a rule resource and built the table from it.
RulesLoaded ==
    /\ loadCall.raised = "no"
    /\ loadCall.file.kind = "rules"
    /\ \A i \in 1..Len(loadCall.file.rules) :
          \A j \in 1..Len(loadCall.file.rules[i].actions) :
             loadCall.file.rules[i].actions[j].path # NoKey

\* The rules of the resource last loaded, in declaration order.
Declared ==
    [i \in 1..Len(loadCall.file.rules) |->
        PolicyRule(loadCall.file.rules[i].when,
                   loadCall.file.rules[i].priority,
                   loadCall.file.rules[i].actions)]

WithPriority(table, p) == SelectSeq(table, LAMBDA rule : rule.priority = p)

\* C14: after load_from_file the rule table is in descending priority with
\* rules of equal priority in their declaration order; hence, whatever the
\* declaration order, for a health index matched by several rules evaluate
\* returns the actions of the matching rule with the highest priority (the
\* earliest declared among equal priorities).
C14_PriorityOrder ==
    /\ \A i, j \in 1..Len(rules) :
          i < j => rules[i].priority >= rules[j].priority
    /\ RulesLoaded =>
          /\ Len(rules) = Len(Declared)
          /\ \A i \in 1..Len(rules) :
                WithPriority(rules, rules[i].priority) =
                    WithPriority(Declared, rules[i].priority)
    /\ (evalCall.kind = "evaluate" /\ RulesLoaded) =>
          LET h == evalCall.health_index
              matching ==
                  { i \in 1..Len(Declared) : ConditionHolds(Declared[i], h) }
              best ==
                  CHOOSE i \in matching :
                     \A j \in matching :
                        \/ Declared[i].priority > Declared[j].priority
                        \/ /\ Declared[i].priority = Declared[j].priority
                           /\ i <= j
          IN  Cardinality(matching) >= 2 =>
                 /\ evalCall.outcome.kind = "return"
                 /\ evalCall.outcome.actions = Declared[best].actions

\* The same statement for the resources none of whose conditions makes the
\* check raise.
C14_PriorityOrderWhenNoCheckRaises ==
    (\A i \in 1..Len(rules) : \A h \in HealthSamples :
        check_condition(rules[i].condition, h).raised = "no")
    => C14_PriorityOrder

\* Two matching rules of equal priority declared after a rule of lower
\* priority that matches too: the earlier declared of the two wins.
C14_PriorityOrderReached ==
    /\ evalCall.kind = "evaluate" /\ RulesLoaded
    /\ Len(Declared) = 2
    /\ Declared[1].condition = Cond_gt_95
    /\ Declared[2].condition = Cond_ge_90
    /\ evalCall.health_index = 96
    /\ evalCall.outcome.kind = "return"
    /\ evalCall.outcome.actions = AssuredActions

\* h <op> k over the integers.
Compares(h, op, k) ==
    IF op = "<" THEN h < k
    ELSE IF op = "<=" THEN h <= k
    ELSE IF op = ">" THEN h > k
    ELSE IF op = ">=" THEN h >= k
    ELSE h = k

\* C15: for every condition "health <op> k" with op in {<, <=, >, >=, ==}
\* and integer k, in any letter case and with any amount of whitespace
\* around the tokens (including none), the condition holds for health
\* index h exactly when h <op> k: the check returns that truth value, and
\* evaluate returns the rule's actions exactly in that case.
C15_ConditionSemantics ==
    evalCall.kind = "evaluate" =>
        \A c \in GrammarConditions :
            evalCall.table = load_from_file(ConditionFile(c)) =>
                LET h == evalCall.health_index
                    holds == Compares(h, c.op, c.k)
                IN  /\ check_condition(ConditionText(c), h) = Returns(holds)
                    /\ evalCall.outcome.kind = "return"
                    /\ evalCall.outcome.actions =
                          IF holds THEN ProbeActions ELSE <<>>

\* "\tHealtH   >=-3\n" evaluated at its threshold -3, where it holds.
C15_Witness ==
    /\ evalCall.kind = "evaluate"
    /\ evalCall.table[1].condition =
          <<"\t", "H", "e", "a", "l", "t", "H", " ", " ", " ", ">", "=",
            "-", "3", "\n">>
    /\ evalCall.health_index = -3
    /\ evalCall.outcome.actions = ProbeActions

\* The condition grammar "health" <op> <integer>, case-insensitive and
\* whitespace-tolerant, read off the text without the code's parser: the
\* word, then the longest operator, then an integer and nothing else.
StartsWith(str, prefix) ==
    Len(str) >= Len(prefix) /\ SubSeq(str, 1, Len(prefix)) = prefix
Drop(str, n) == SubSeq(str, n + 1, Len(str))
GrammarParse(condition) ==
    LET text == PyLower(PyStrip(condition))
        afterWord == LStrip(Drop(text, Len(Str_health)))
        op == IF StartsWith(afterWord, <<"<", "=">>) THEN "<="
              ELSE IF StartsWith(afterWord, <<">", "=">>) THEN ">="
              ELSE IF StartsWith(afterWord, <<"=", "=">>) THEN "=="
              ELSE IF StartsWith(afterWord, <<"<">>) THEN "<"
              ELSE IF StartsWith(afterWord, <<">">>) THEN ">"
              ELSE "none"
        number == PyIntOfStr(Drop(afterWord, Len(OperatorText(op))))
    IN  IF StartsWith(text, Str_health) /\ op # "none" /\ number.raised = "no"
        THEN [ok |-> TRUE, op |-> op, k |-> number.value]
        ELSE [ok |-> FALSE, op |-> "none", k |-> 0]

\* The rule's condition parses under the grammar and holds for h.
GrammarHolds(rule, h) ==
    LET parsed == GrammarParse(rule.condition)
    IN  parsed.ok /\ Compares(h, parsed.op, parsed.k)

\* C16: a rule whose condition does not parse under the grammar (empty
\* text, unknown operator, non-integer or missing threshold, trailing text)
\* never makes evaluate() fail: it is treated as non-matching and the rules
\* after it are still evaluated, so evaluate returns the actions of the
\* first rule that parses and holds, or an empty list.
C16_UnparseableNonMatching ==
    evalCall.kind = "evaluate" =>
        LET h == evalCall.health_index
            table == evalCall.table
            matching == { i \in 1..Len(table) : GrammarHolds(table[i], h) }
        IN  /\ evalCall.outcome.kind = "return"
            /\ evalCall.outcome.actions =
                  IF matching = {} THEN <<>>
                  ELSE table[CHOOSE i \in matching :
                                \A j \in matching : i <= j].actions

\* The same statement for the tables all of whose conditions either parse
\* under the grammar or contain none of "<", ">", "==".
C16_HoldsWithoutOperatorText ==
    (\A i \in 1..Len(rules) :
        \/ GrammarParse(rules[i].condition).ok
        \/ LET text == rules[i].condition
           IN  /\ ~PyIn(<<"<">>, text) /\ ~PyIn(<<">">>, text)
               /\ ~PyIn(<<"=", "=">>, text))
    => C16_UnparseableNonMatching

\* An unparseable rule with no operator text is skipped and a later rule
\* answers.
C16_SkippedReached ==
    /\ evalCall.kind = "evaluate"
    /\ Len(evalCall.table) = 2
    /\ evalCall.table[1].condition = Cond_ne_5
    /\ evalCall.table[2].condition = Cond_lt_90
    /\ evalCall.health_index = 50
    /\ evalCall.outcome = [kind |-> "return", actions |-> OfferedActions]

\* The resource cannot be loaded: none is configured, it is missing,
\* unreadable or malformed (as YAML, in its top-level shape, or in a rule
\* entry lacking a required key).
Unloadable(file) ==
    \/ file.kind \in {"none", "missing", "unstatable", "unreadable",
                      "malformed", "wrong shape"}
    \/ /\ file.kind = "rules"
       /\ \E i \in 1..Len(file.rules) :
             \E j \in 1..Len(file.rules[i].actions) :
                file.rules[i].actions[j].path = NoKey

\* C17: constructing a PolicyEngine with no rule resource, or loading a
\* rule resource that is missing, unreadable or malformed, never fails and
\* leaves the rule table exactly equal to the built-in default table; no
\* partially loaded rule of the failed resource remains.
C17_FallbackToDefaults ==
    Unloadable(loadCall.file) =>
        /\ loadCall.raised = "no"
        /\ rules = DefaultRules

\* The same statement for every resource but the one whose path cannot be
\* examined.
C17_FallbackWhenStatable ==
    loadCall.file.kind # "unstatable" => C17_FallbackToDefaults

\* A resource whose third rule has an action without "path", after two
\* good rules: the table is the default one.
C17_PartialLoadReached ==
    /\ loadCall.file.kind = "rules"
    /\ Len(loadCall.file.rules) = 3
    /\ loadCall.file.rules[1].when = Cond_lt_90
    /\ loadCall.file.rules[3].actions[2].path = NoKey
    /\ loadCall.raised = "no"
    /\ rules = DefaultRules

\* The path/value pairs of an action list, in order.
Writes(actions) ==
    [i \in 1..Len(actions) |-> <<actions[i].path, actions[i].value>>]

\* C2: with the default rule table, for every integer health index h,
\* evaluate(h) returns exactly the notAvailable / C / ±0.05mm / 1.25 actions
\* if h < 80, exactly the three offered / B / 1.0 actions (no tolerance
\* write) if 80 <= h < 90, and exactly the assured / A / ±0.02mm / 0.85
\* actions if h >= 90; it is never empty.
C2_DefaultTable ==
    (evalCall.kind = "evaluate" /\ evalCall.table = DefaultRules) =>
        LET h == evalCall.health_index
        IN  /\ evalCall.outcome.kind = "return"
            /\ evalCall.outcome.actions # <<>>
            /\ Writes(evalCall.outcome.actions) =
                  IF h < 80
                  THEN << <<AssuranceStatePath, "notAvailable">>,
                          <<SurfaceFinishPath, "C">>,
                          <<ToleranceClassPath, "±0.05mm">>,
                          <<EnergyCostPath, "1.25">> >>
                  ELSE IF h < 90
                  THEN << <<AssuranceStatePath, "offered">>,
                          <<SurfaceFinishPath, "B">>,
                          <<EnergyCostPath, "1.0">> >>
                  ELSE << <<AssuranceStatePath, "assured">>,
                          <<SurfaceFinishPath, "A">>,
                          <<ToleranceClassPath, "±0.02mm">>,
                          <<EnergyCostPath, "0.85">> >>

\* An index both "health < 80" and "health < 90" hold for: the first wins.
C2_Witness ==
    /\ evalCall.kind = "evaluate"
    /\ evalCall.table = DefaultRules
    /\ evalCall.health_index = 79
    /\ Len(evalCall.outcome.actions) = 4

\* ------------------------------------------------------------------------
\* Properties of AnomalyDetector
\* ------------------------------------------------------------------------
RECURSIVE SeqSum(_)
SeqSum(q) == IF q = <<>> THEN Zero ELSE RAdd(Head(q), SeqSum(Tail(q)))

RECURSIVE SeqSumSq(_)
SeqSumSq(q) ==
    IF q = <<>> THEN Zero
    ELSE RAdd(RMul(Head(q), Head(q)), SeqSumSq(Tail(q)))

\* Sum of squared deviations of the elements of q from mu.
RECURSIVE SeqDevSq(_, _)
SeqDevSq(q, mu) ==
    IF q = <<>> THEN Zero
    ELSE RAdd(RMul(RSub(Head(q), mu), RSub(Head(q), mu)),
              SeqDevSq(Tail(q), mu))

IMin(i, j) == IF i < j THEN i ELSE j
IMax(i, j) == IF i > j THEN i ELSE j

\* The last k elements of q, in order.
LastK(q, k) == SubSeq(q, Len(q) - k + 1, Len(q))

Returned == detCall.kind = "detect" /\ detCall.outcome.kind = "return"

OverrideFires ==
    RLt(RMul(config.threshold_vib_rms, config.threshold_factor),
        detCall.vib_rms)

C8_ScoreInUnitInterval ==
    Returned =>
        /\ RLe(Zero, detCall.outcome.score)
        /\ RLe(detCall.outcome.score, One)

\* A negative residual with a computed z-score, scored strictly inside (0,1).
C8_Witness ==
    /\ Returned
    /\ RLt(detCall.outcome.residual, Zero)
    /\ detCall.outcome.zscore # Zero
    /\ RLt(Zero, detCall.outcome.score)
    /\ RLt(detCall.outcome.score, One)

\* 0.5 * min(1, |residual| / max(expected, 0.5)), stated by cases.
HalfRatio(residual, expected) ==
    LET den == IF RLt(expected, Rat(1, 2)) THEN Rat(1, 2) ELSE expected
        mag == IF RLt(residual, Zero) THEN RSub(Zero, residual) ELSE residual
    IN  IF RLe(den, mag) THEN Rat(1, 2) ELSE RDiv(mag, RMul(RInt(2), den))

\* C9: insufficient history: a detect() call after which the occupancy is
\* below max(min_samples, 2) has z-score 0, and returns
\* 0.5 * min(1, |residual| / max(expected, 0.5)), raised to 0.8 only if the
\* hard vibration override fires.
C9_InsufficientHistory ==
    (Returned /\ Len(residuals) < IMax(config.min_samples, 2)) =>
        LET expected ==
                RAdd(config.coefficients.base,
                     RAdd(RMul(config.coefficients.k1, detCall.omega),
                          RMul(config.coefficients.k2, detCall.load)))
            half == HalfRatio(RSub(detCall.vib_rms, expected), expected)
        IN  /\ detCall.outcome.zscore = Zero
            /\ detCall.outcome.score =
                  IF OverrideFires /\ RLt(half, Rat(4, 5))
                  THEN Rat(4, 5) ELSE half

\* Two different residuals in the window, still below min_samples = 3.
C9_Witness ==
    /\ Returned
    /\ config.min_samples = 3
    /\ Len(residuals) = 2
    /\ residuals[1] # residuals[2]
    /\ ~OverrideFires
    /\ detCall.outcome.score # Zero

\* C10: reset() equivalence: after reset(), whatever the history before it,
\* the detector returns call by call the same outcome as a freshly
\* constructed detector with the same configuration receiving the same
\* readings, and is in the same tracker state.
C10_ResetEquivalence ==
    afterReset # "none" =>
        /\ Tracker = fresh.tracker
        /\ detCall.kind = "detect" => detCall.outcome = fresh.outcome

\* A used detector was reset and has since scored with a computed z-score.
C10_Witness ==
    /\ afterReset = "used"
    /\ Returned
    /\ Len(pushed) >= 2
    /\ detCall.outcome.zscore # Zero

\* C24: detect() has no failure mode: for every configuration the
\* constructor accepts (including window_size 0 or 1, min_samples 0,
\* zscore_threshold <= 0), every tracker state and every reading with
\* vib_rms, omega, load >= 0, detect() completes without a division by zero
\* or an out-of-range access.
C24_DetectNeverFails ==
    detCall.kind = "detect" => detCall.outcome.kind = "return"

\* The same statement for the configurations with window_size >= 1.
C24_NeverFailsWithAWindow ==
    config.window_size >= 1 => C24_DetectNeverFails

\* A detector with window_size 1, min_samples 0 and zscore_threshold 0
\* whose detect() returned on a window that was full.
C24_EdgeConfigReached ==
    /\ detCall.kind = "detect"
    /\ config.window_size = 1 /\ config.min_samples = 0
    /\ config.zscore_threshold = Zero
    /\ Len(pushed) >= 2
    /\ detCall.outcome.kind = "return"

\* C18: constructing an AnomalyDetector with a model_path that is missing
\* or whose content is malformed (invalid JSON, wrong top-level shape, or
\* any field that cannot be converted to a number) never fails and leaves
\* every threshold, min_samples, window_size and baseline coefficient at
\* its default value; no field of a malformed resource is applied.
C18_MalformedModelFallsBack ==
    detInit.model_path \in MalformedModels =>
        /\ detInit.raised = "no"
        /\ config = DefaultConfig

\* What does hold: a missing, unopenable or undecodable file leaves the
\* defaults, and whenever the constructor returns, the fields before the
\* first malformed one carry the file's values.
C18_FallsBackWhenUndecodable ==
    detInit.model_path.kind \in {"missing", "unreadable", "invalid json"} =>
        /\ detInit.raised = "no"
        /\ config = DefaultConfig

\* A model file whose "factor" is no number, after a good "vib_rms": the
\* constructor returns and threshold_vib_rms is the file's 2.5.
C18_PartialReached ==
    /\ detInit.model_path.kind = "object"
    /\ detInit.model_path.thresholds.kind = "mapping"
    /\ detInit.model_path.thresholds.factor = Text
    /\ detInit.raised = "no"
    /\ config.threshold_vib_rms = Rat(5, 2)
    /\ config.threshold_factor = RInt(2)
    /\ detCall.kind = "detect"

\* ------------------------------------------------------------------------
\* Properties of HealthFusion
\* ------------------------------------------------------------------------
\* x clamped to [0, 1], stated without PyMin / PyMax.
Clamp01(x) == IF RLt(x, Zero) THEN Zero ELSE IF RLt(One, x) THEN One ELSE x

\* The weighted sum w_ml*a' + w_physics*r' of a compute() call.
WeightedSum(call) ==
    RAdd(RMul(ml_weight, Clamp01(call.anomaly_score)),
         RMul(physics_weight, Clamp01(call.physics_residual)))

\* k = floor(100 * (1 - min(1, m))), stated as k <= 100*(1 - min(1,m)) < k+1
\* over the integers: with m = p/q, 100*(q - min(q,p)) lies in [k*q, (k+1)*q).
IsFloorOfHealth(k, m) ==
    LET p == IF m.n > m.d THEN m.d ELSE m.n
        scaled == 100 * (m.d - p)
    IN  k * m.d <= scaled /\ scaled < (k + 1) * m.d

IsCall(call, w_ml, w_physics, a, r) ==
    /\ call.kind = "compute"
    /\ ml_weight = w_ml /\ physics_weight = w_physics
    /\ call.anomaly_score = a /\ call.physics_residual = r

In01(x) == RLe(Zero, x) /\ RLe(x, One)

\* C4: monotonicity of compute for fixed weights: of two calls with inputs in
\* [0,1], the one whose anomaly and residual are both at least the other's
\* never has the larger health_index.
C4_Monotone ==
    (/\ fusionCall.kind = "compute" /\ fusionPrev.kind = "compute"
     /\ In01(fusionPrev.anomaly_score) /\ In01(fusionPrev.physics_residual)
     /\ In01(fusionCall.anomaly_score) /\ In01(fusionCall.physics_residual)
     /\ RLe(fusionPrev.anomaly_score, fusionCall.anomaly_score)
     /\ RLe(fusionPrev.physics_residual, fusionCall.physics_residual))
    => fusionCall.result.health_index <= fusionPrev.result.health_index

\* Two calls where the anomaly grows and the health index strictly drops.
C4_Witness ==
    /\ fusionCall.kind = "compute" /\ fusionPrev.kind = "compute"
    /\ fusionPrev.physics_residual = fusionCall.physics_residual
    /\ fusionPrev.anomaly_score = Rat(1, 8)
    /\ fusionCall.anomaly_score = Rat(4, 5)
    /\ fusionCall.result.health_index < fusionPrev.result.health_index

\* C11: clamping: compute(a, r) returns the same HealthResult as compute on
\* the inputs clamped to [0, 1], for all inputs including negative ones and
\* ones above 1; compute(-0.5, -0.3) equals compute(0, 0) and
\* compute(1.5, 2.0) equals compute(1, 1).  Stated on the last call against
\* the function on clamped inputs, and on every two consecutive calls whose
\* clamped inputs agree.
C11_Clamping ==
    /\ fusionCall.kind = "compute" =>
          fusionCall.result =
              compute(ml_weight, physics_weight,
                      Clamp01(fusionCall.anomaly_score),
                      Clamp01(fusionCall.physics_residual))
    /\ (/\ fusionCall.kind = "compute" /\ fusionPrev.kind = "compute"
        /\ Clamp01(fusionCall.anomaly_score) =
              Clamp01(fusionPrev.anomaly_score)
        /\ Clamp01(fusionCall.physics_residual) =
              Clamp01(fusionPrev.physics_residual))
       => fusionCall.result = fusionPrev.result

\* compute(-0.5, -0.3) followed by compute(0, 0), and compute(1.5, 2.0)
\* followed by compute(1, 1), with equal results.
C11_Witness ==
    /\ fusionCall.kind = "compute" /\ fusionPrev.kind = "compute"
    /\ \/ /\ fusionPrev.anomaly_score = Rat(-1, 2)
          /\ fusionPrev.physics_residual = Rat(-3, 10)
          /\ fusionCall.anomaly_score = Zero
          /\ fusionCall.physics_residual = Zero
          /\ physics_weight = Rat(2, 5)
       \/ /\ fusionPrev.anomaly_score = Rat(3, 2)
          /\ fusionPrev.physics_residual = Rat(2, 1)
          /\ fusionCall.anomaly_score = One
          /\ fusionCall.physics_residual = One
          /\ physics_weight = Rat(1, 10)
    /\ fusionCall.result = fusionPrev.result

\* The ranges of a HealthResult (HealthAssessment repeats them as field
\* constraints).
ResultInRange(res) ==
    /\ res.health_index \in 0..100
    /\ In01(res.health_confidence)
    /\ In01(res.anomaly_score)
    /\ In01(res.physics_residual)

\* C12: for every valid weight pair and all inputs, also outside [0, 1], the
\* HealthResult of compute has health_index an integer in 0..100 and
\* health_confidence, anomaly_score and physics_residual in [0, 1]; and
\* compute leaves the weights of the fusion unchanged.
C12_ResultInvariant ==
    /\ [](fusionCall.kind = "compute" => ResultInRange(fusionCall.result))
    /\ [][fusionCall' # fusionCall =>
             /\ ml_weight' = ml_weight
             /\ physics_weight' = physics_weight]_vars

\* A call with both inputs above 1 and weights summing to 2, where the
\* weighted sum 2 is capped and the health index is 0.
C12_Witness ==
    /\ IsCall(fusionCall, One, One, Rat(3, 2), Rat(2, 1))
    /\ fusionCall.result.health_index = 0
    /\ fusionCall.result.anomaly_score = One

\* C13: constructing HealthFusion with ml_weight or physics_weight outside
\* [0, 1] raises and yields no instance (no weight is set, no compute() call
\* is ever made on it); with both weights in [0, 1] construction succeeds
\* and the instance holds the given weights, whether or not they sum to 1.
C13_ConstructionValidation ==
    LET w_ml == fusionInit.ml_weight
        w_physics == fusionInit.physics_weight
    IN  IF In01(w_ml) /\ In01(w_physics)
        THEN /\ fusionInit.raised = "no"
             /\ ml_weight = w_ml
             /\ physics_weight = w_physics
        ELSE /\ fusionInit.raised = "ValueError"
             /\ ml_weight = NoInstance
             /\ physics_weight = NoInstance
             /\ fusionCall = NoCall

\* A rejected construction with a valid ML weight and a physics weight
\* just above 1.
C13_Witness ==
    /\ fusionInit.raised = "ValueError"
    /\ fusionInit.ml_weight = Rat(1, 2)
    /\ fusionInit.physics_weight = Rat(1001, 1000)
    /\ ml_weight = NoInstance

\* ------------------------------------------------------------------------
\* Properties of the audit log
\* ------------------------------------------------------------------------
\* The last k elements of q (all of q when it is shorter), in order.
MostRecent(q, k) == SubSeq(q, IMax(Len(q) - k, 0) + 1, Len(q))

\* C19: after any sequence of audit appends (policy-applied and manual
\* patches) the log holds at most MAX_AUDIT_LOG entries, and they are
\* exactly the most recently appended entries in append order, oldest
\* first; after MAX_AUDIT_LOG + 1 appends to an empty log the first entry
\* is absent and exactly MAX_AUDIT_LOG entries remain.
C19_RingBuffer ==
    /\ Len(audit_log) <= MAX_AUDIT_LOG
    /\ audit_log = MostRecent(appended, MAX_AUDIT_LOG)
    /\ \A i \in 1..(Len(audit_log) - 1) :
          audit_log[i].timestamp < audit_log[i + 1].timestamp
    /\ Len(appended) = MAX_AUDIT_LOG + 1 =>
          /\ Len(audit_log) = MAX_AUDIT_LOG
          /\ \A i \in 1..Len(audit_log) : audit_log[i] # appended[1]

\* MAX_AUDIT_LOG + 1 appends, a manual patch first and a policy patch
\* last: the manual patch is gone and the policy patch is the newest.
C19_Witness ==
    /\ Len(appended) = MAX_AUDIT_LOG + 1
    /\ appended[1].action = "MANUAL_PATCH"
    /\ appended[Len(appended)].action = "PATCH"
    /\ Len(audit_log) = MAX_AUDIT_LOG
    /\ audit_log[Len(audit_log)] = appended[Len(appended)]
    /\ audit_log[1] = appended[2]

\* C20: for every log content, every optional asset filter and every
\* limit >= 0, the audit query returns the most recent `limit` entries of
\* the log (of that asset only, when a filter is given), oldest to
\* newest, hence never more than `limit` entries.
C20_AuditQuery ==
    auditQuery.kind = "query" =>
        LET asset_id == auditQuery.asset_id
            selected ==
                IF asset_id = NoAssetId THEN audit_log
                ELSE SelectSeq(audit_log, LAMBDA e : e.asset_id = asset_id)
        IN  /\ auditQuery.result = MostRecent(selected, auditQuery.limit)
            /\ Len(auditQuery.result) <= auditQuery.limit

\* The same statement for a positive limit and a filter that is omitted
\* or not empty.
C20_AuditQueryPositiveLimit ==
    (/\ auditQuery.kind = "query"
     /\ auditQuery.limit >= 1
     /\ auditQuery.asset_id # "")
    => C20_AuditQuery

\* A filtered query with limit 1 on a log holding two entries of the
\* asset returns the newer one.
C20_FilteredReached ==
    /\ auditQuery.kind = "query"
    /\ auditQuery.asset_id = "cnc-1"
    /\ auditQuery.limit = 1
    /\ Len(audit_log) = 2
    /\ audit_log[1].asset_id = "cnc-1" /\ audit_log[2].asset_id = "cnc-1"
    /\ auditQuery.result = <<audit_log[2]>>

\* ------------------------------------------------------------------------
\* Properties of compute_with_history
\* ------------------------------------------------------------------------
\* (1 - w) * current + w * mean(history), over the rationals.
Blend(current, values, w) ==
    RAdd(RMul(RSub(One, w), current),
         RDiv(RMul(w, SeqSum(values)), RInt(Len(values))))

\* The value of a signal that compute receives.
Passed(current, history, w) ==
    IF history.given /\ Len(history.values) >= 1
    THEN Blend(current, history.values, w)
    ELSE current

\* C25: compute_with_history passes to compute, for each of the two
\* signals independently, (1 - history_weight) * current + history_weight *
\* mean(history) when its history is non-empty, and the current value
\* unchanged when its history is absent or empty; so with no history for
\* either signal, or with history_weight = 0, the result equals
\* compute(current_anomaly, current_residual).
C25_HistorySmoothing ==
    historyCall.kind = "compute_with_history" =>
        LET c == historyCall
            unsmoothed ==
                compute(ml_weight, physics_weight, c.current_anomaly,
                        c.current_residual)
            noHistory(h) == ~h.given \/ h.values = <<>>
        IN  /\ c.result =
                  compute(ml_weight, physics_weight,
                          Passed(c.current_anomaly, c.history_anomaly,
                                 c.history_weight),
                          Passed(c.current_residual, c.history_residual,
                                 c.history_weight))
            /\ (noHistory(c.history_anomaly) /\ noHistory(c.history_residual))
                  => c.result = unsmoothed
            /\ c.history_weight = Zero => c.result = unsmoothed

\* Anomaly 0.8 smoothed with history [0.5] at weight 0.3 (0.71), the
\* residual 0.125 passed unchanged for want of a history: with weights
\* 0.6 / 0.4 the health index is 52.
C25_Witness ==
    /\ historyCall.kind = "compute_with_history"
    /\ ml_weight = Rat(3, 5) /\ physics_weight = Rat(2, 5)
    /\ historyCall.current_anomaly = Rat(4, 5)
    /\ historyCall.history_anomaly = HistoryList(<<Rat(1, 2)>>)
    /\ historyCall.history_weight = Rat(3, 10)
    /\ historyCall.current_residual = Rat(1, 8)
    /\ historyCall.history_residual = NoneHistory
    /\ historyCall.result.anomaly_score = Rat(71, 100)
    /\ historyCall.result.health_index = 52

\* ------------------------------------------------------------------------
\* Properties of the broker's handlers
\* ------------------------------------------------------------------------
\* Handler t moves in this step.
Steps(t) == tasks[t].pc \in { "get", "patch" } /\ tasks'[t] # tasks[t]

\* This step appends exactly one entry, and it carries the asset, the path
\* and the value of the action that handler t is applying.
AppendsFor(t) ==
    /\ Len(appended') = Len(appended) + 1
    /\ SubSeq(appended', 1, Len(appended)) = appended
    /\ LET e == appended'[Len(appended')]
           action == tasks[t].actions[tasks[t].i]
       IN  /\ e.asset_id = tasks[t].asset_id
           /\ e.path = action.path
           /\ e.new_value = action.value

\* A step of handler t in which the patch of its action succeeds leaves
\* one more entry, for that action, in the history before the handler
\* goes on; any other step of a handler leaves the history as it was.
AuditedStep(t) ==
    IF tasks'[t].applied # tasks[t].applied
    THEN AppendsFor(t)
    ELSE appended' = appended

\* C21: every action whose registry patch succeeds, in _evaluate_and_apply
\* or in PATCH /capability, produces exactly one audit entry carrying that
\* asset id, path and new value, appended before the next action of the
\* same evaluation is attempted; an action whose read or patch fails
\* produces no audit entry.
C21_AuditOnEveryAppliedAction ==
    [][\A t \in TaskIds : Steps(t) => AuditedStep(t)]_vars

\* What holds: the same, as long as the element read before the patch
\* comes back as a string or is missing.
C21_AuditedWhenOldValueIsText ==
    [][\A t \in TaskIds :
          (Steps(t) /\ (tasks[t].pc = "patch" =>
                            ValidOldValue(tasks[t].old_value)))
              => AuditedStep(t)]_vars

\* An evaluation at health 50 has finished with its fourth patch applied
\* (EnergyCostPerPart, read back as a number) and three entries recorded.
C21_UnrecordedReached ==
    \E t \in TaskIds :
        /\ tasks[t].pc = "done"
        /\ tasks[t].source = "event"
        /\ tasks[t].applied = 1..4
        /\ Len(appended) = 3
        /\ \A u \in TaskIds \ {t} : tasks[u].pc = "idle"

\* Actions of handler t that were patched and recorded: those applied
\* whose old value made a valid entry.
Recorded(t) ==
    { j \in tasks[t].applied :
        ValidOldValue(
            get_element_value(fault, tasks[t].actions[j].path).value) }

\* Number of entries recorded by the handlers of S.
RECURSIVE TotalRecorded(_)
TotalRecorded(S) ==
    IF S = {} THEN 0
    ELSE LET t == CHOOSE u \in S : TRUE
         IN  Cardinality(Recorded(t)) + TotalRecorded(S \ {t})

\* C22: under any interleaving of the writers (policy evaluations from
\* MQTT events, polling and POST /evaluate, and manual patches), an append
\* and its eviction are one step: every entry recorded by a handler is in
\* the history exactly once, the log is the most recent MAX_AUDIT_LOG of
\* them in append order, and neither a handler between two awaits nor
\* GET /audit sees more than MAX_AUDIT_LOG entries.
C22_AtomicAppend ==
    /\ Len(appended) = TotalRecorded(TaskIds)
    /\ \A k \in 1..Len(appended) : appended[k].timestamp = k
    /\ audit_log = MostRecent(appended, MAX_AUDIT_LOG)
    /\ Len(audit_log) <= MAX_AUDIT_LOG
    /\ auditQuery.kind = "query" =>
          /\ Len(auditQuery.result) <= MAX_AUDIT_LOG
          /\ auditQuery.result = audit_log

\* An event for cnc-1 and a POST /evaluate for cnc-2 are both in the
\* middle of their loops; their entries alternate in the history, the
\* oldest has been evicted, and GET /audit has just read the log.
C22_Witness ==
    /\ tasks["t1"].source = "event" /\ tasks["t1"].pc = "get"
    /\ tasks["t2"].source = "post" /\ tasks["t2"].pc = "patch"
    /\ tasks["t1"].asset_id = "cnc-1" /\ tasks["t2"].asset_id = "cnc-2"
    /\ Len(appended) = MAX_AUDIT_LOG + 1
    /\ appended[1].asset_id = "cnc-1"
    /\ appended[2].asset_id = "cnc-2"
    /\ appended[3].asset_id = "cnc-1"
    /\ auditQuery.kind = "query"

\* The actions of handler t whose patch succeeded, in rule order.
RECURSIVE AppliedFrom(_, _)
AppliedFrom(task, j) ==
    IF j > Len(task.actions) THEN <<>>
    ELSE (IF j \in task.applied THEN <<task.actions[j]>> ELSE <<>>)
         \o AppliedFrom(task, j + 1)

Evaluations == { "event", "poll", "post" }

\* C30: the list returned by _evaluate_and_apply, which POST /evaluate
\* reports as actions_taken, contains exactly the actions whose registry
\* patch succeeded: after a failed patch the remaining actions are still
\* attempted and the failed action is not in the list.
C30_ReportsAppliedActions ==
    \A t \in TaskIds :
        (tasks[t].pc = "done" /\ tasks[t].source \in Evaluations) =>
            tasks[t].result = AppliedFrom(tasks[t], 1)

\* What holds: the list returned is the whole action set of the matching
\* rule, and the actions after a failed one have been attempted.
C30_ReportsEveryAction ==
    \A t \in TaskIds :
        (tasks[t].pc = "done" /\ tasks[t].source \in Evaluations) =>
            /\ tasks[t].status = "returned"
            /\ tasks[t].result = tasks[t].actions
            /\ tasks[t].applied =
                  { j \in 1..Len(tasks[t].actions) :
                      /\ get_element_value(fault,
                             tasks[t].actions[j].path).kind = "return"
                      /\ patch_element(fault,
                             tasks[t].actions[j].path).kind = "return" }

\* POST /evaluate at health 85 while SurfaceFinishGrade refuses PATCH: the
\* first and third action are applied and all three are reported.
C30_FailedReportedReached ==
    \E t \in TaskIds :
        /\ tasks[t].pc = "done" /\ tasks[t].source = "post"
        /\ fault = Fault("unwritable", SurfaceFinishPath)
        /\ tasks[t].applied = {1, 3}
        /\ Len(tasks[t].result) = 3

\* Paths written by an action list, and the value a list writes to a path.
PathsOf(actions) == { actions[j].path : j \in 1..Len(actions) }
ValueFor(actions, p) ==
    LET j == CHOOSE k \in 1..Len(actions) : actions[k].path = p
    IN  actions[j].value

\* Two evaluations of the same asset have run to their end with every
\* read and patch succeeding.
BothFinished(t, u) ==
    /\ t # u
    /\ tasks[t].pc = "done" /\ tasks[u].pc = "done"
    /\ tasks[t].source \in Evaluations /\ tasks[u].source \in Evaluations
    /\ tasks[t].asset_id = tasks[u].asset_id
    /\ tasks[t].applied = 1..Len(tasks[t].actions)
    /\ tasks[u].applied = 1..Len(tasks[u].actions)

WrittenByBoth(t, u) ==
    PathsOf(tasks[t].actions) \cap PathsOf(tasks[u].actions)

\* C28: when two policy evaluations for the same asset overlap and every
\* patch succeeds, then once both have finished the attributes written by
\* both all carry the values of the action set of one of the two; the
\* registry does not end with a mixture of the two rule sets' values.
C28_NoMixedRuleSets ==
    \A t, u \in TaskIds :
        BothFinished(t, u) =>
            \E w \in {t, u} :
                \A p \in WrittenByBoth(t, u) :
                    registry[tasks[t].asset_id][p] =
                        ValueFor(tasks[w].actions, p)

\* What holds: each attribute written by both carries the value of one of
\* the two evaluations, not necessarily the same one for every attribute.
C28_EachAttributeFromOneOfThem ==
    \A t, u \in TaskIds :
        BothFinished(t, u) =>
            \A p \in WrittenByBoth(t, u) :
                \E w \in {t, u} :
                    registry[tasks[t].asset_id][p] =
                        ValueFor(tasks[w].actions, p)

\* An event at health 50 and a poll at health 85 for cnc-1 have both
\* finished: the asset is "offered" with surface finish grade C.
C28_MixtureReached ==
    /\ BothFinished("t1", "t2")
    /\ tasks["t1"].source = "event" /\ tasks["t1"].reason = 50
    /\ tasks["t2"].source = "poll" /\ tasks["t2"].reason = 85
    /\ tasks["t1"].asset_id = "cnc-1"
    /\ registry["cnc-1"][AssuranceStatePath] = "offered"
    /\ registry["cnc-1"][SurfaceFinishPath] = "C"

\* ------------------------------------------------------------------------
\* Properties of the capability state
\* ------------------------------------------------------------------------
SameOn(paths) ==
    \A a, b \in AssetIds : \A p \in paths : registry[a][p] = registry[b][p]

\* C27: with the default rule table the capability state produced by an
\* evaluation is determined by the health index alone: whatever the two
\* prior states, after all writes returned by evaluate(h) are applied the
\* four attributes assurance_state, surface_finish_grade, tolerance_class
\* and energy_cost_per_part are the same in both.
C27_StateDeterminedByHealth ==
    evalCall.kind = "evaluate" => SameOn(CapabilityPaths)

\* What holds: the attributes that the matching rule writes are the same
\* in both, which is all four attributes below 80 and from 90 upwards.
C27_WrittenAttributesDetermined ==
    evalCall.kind = "evaluate" =>
        /\ SameOn(PathsOf(evalCall.outcome.actions))
        /\ (evalCall.health_index < 80 \/ evalCall.health_index >= 90)
              => SameOn(CapabilityPaths)

\* Health 85 evaluated for a healthy and a degraded machine: both are
\* "offered" now, with the tolerance class each had before.
C27_PriorStateKeptReached ==
    /\ evalCall.kind = "evaluate" /\ evalCall.health_index = 85
    /\ registry["cnc-1"][AssuranceStatePath] = "offered"
    /\ registry["cnc-2"][AssuranceStatePath] = "offered"
    /\ registry["cnc-1"][ToleranceClassPath] = "±0.02mm"
    /\ registry["cnc-2"][ToleranceClassPath] = "±0.05mm"

\* ------------------------------------------------------------------------
\* Properties of POST /assess
\* ------------------------------------------------------------------------
InFlight == { r \in RequestIds : requests[r].pc # "idle" }

\* The tracker that the pushes made so far amount to.
WindowOfPushes ==
    LET window == MostRecent(pushed, config.window_size)
    IN  [residuals |-> window, sum |-> SeqSum(window),
         sum_sq |-> SeqSumSq(window)]

C29_SafetyFloor ==
    \A r \in RequestIds :
        RLt(RInt(6), requests[r].vib_rms) =>
            /\ requests[r].pc \in { "simulate", "report" } =>
                  RLe(Rat(4, 5), requests[r].anomaly_score)
            /\ requests[r].pc = "report" =>
                  /\ requests[r].health_index <= 52
                  /\ \E outcome \in
                         { evaluate(rules, requests[r].health_index) } :
                        /\ outcome.kind = "return"
                        /\ outcome.actions = NotAvailableActions

\* The floor is binding at every stage: after a history of equal readings
\* the blended score is 0.5 and 0.8 is reported, the simulation fails so
\* the physics residual is 0, and the health index is exactly 52.
C29_Witness ==
    /\ requests["r1"].pc = "report"
    /\ requests["r1"].vib_rms = Rat(61, 10)
    /\ requests["r1"].anomaly_score = Rat(4, 5)
    /\ requests["r1"].physics_residual = Zero
    /\ requests["r1"].health_index = 52
    /\ config.min_samples = ScaledWindow
    /\ Len(pushed) > ScaledWindow

\* Positions of the shared window, as indexes of the push history.
WindowPositions ==
    (IMax(Len(pushed) - config.window_size, 0) + 1)..Len(pushed)

\* C26: all assets share one detector instance, so scores are not
\* isolated per asset.  The residuals of every asset enter the one window,
\* and the z-score of a reading of asset B is taken against the mean and
\* variance of that window; two request histories that differ only in
\* the readings of asset A can therefore give the same reading of B
\* different scores, and when they do the windows differ.
C26_ScoresNotIsolated ==
    /\ Len(twin.assets) = Len(pushed)
    /\ Tracker = WindowOfPushes
    /\ (Returned /\ twin.assets # <<>>
           /\ twin.assets[Len(twin.assets)] = ObservedAsset) =>
          /\ twin.vib_rms = detCall.vib_rms
          /\ detCall.outcome.zscore =
                compute_zscore(config, WindowOfPushes,
                               detCall.outcome.residual)
          /\ detCall.outcome.score # twin.outcome.score =>
                Tracker # twin.tracker

\* The two histories: cnc-1 reads 2.6 twice in one run and 2.6, then 6.1
\* in the other; then cnc-2 reads 2.6 in both.  The readings of cnc-1 are
\* in the window and cnc-2 gets two different scores.
C26_Witness ==
    /\ twin.assets = <<"cnc-1", "cnc-1", ObservedAsset>>
    /\ Returned /\ detCall.vib_rms = Rat(13, 5) /\ twin.vib_rms = Rat(13, 5)
    /\ \A k \in WindowPositions : k < 3 => twin.assets[k] = "cnc-1"
    /\ Tracker.residuals[1] = twin.tracker.residuals[1]
    /\ Tracker.residuals[2] # twin.tracker.residuals[2]
    /\ detCall.outcome.score # twin.outcome.score

====
